---------------------------- MODULE Spec2Model ----------------------------
(***************************************************************************)
(* Retry-with-backoff for LLM provider calls:                              *)
(*   src/agents/pi-embedded-runner/run/prompt-retry.ts                     *)
(*                                                                         *)
(* The error classifier (extractStatusCode, extractErrorMessage,           *)
(* isRetryableError, getRetryAfterMs), getRetryConfig and runWithPromptRetry*)
(* are translated from prompt-retry.ts.  retryAsync (infra/retry.js) and   *)
(* isRateLimitErrorMessage (pi-embedded-helpers/errors.js) are imported by *)
(* that file; they are modelled from spec.md sections 4.1 and 4.2.         *)
(***************************************************************************)
EXTENDS Integers, Sequences, FiniteSets, TLC

(***************************************************************************)
(* Strings.  A JavaScript string is the sequence of its UTF-16 code units.  *)
(* A printable ASCII character is the one-character TLA+ string; tab, line *)
(* feed, form feed and carriage return are "\t", "\n", "\f", "\r"; every   *)
(* other code unit, and the grave accent, is named by its four hexadecimal *)
(* digits ("u8BF7", "u00A0", "u000B", "u0060").                            *)
(***************************************************************************)
UpperChars == <<"A","B","C","D","E","F","G","H","I","J","K","L","M",
                "N","O","P","Q","R","S","T","U","V","W","X","Y","Z">>

LowerChars == <<"a","b","c","d","e","f","g","h","i","j","k","l","m",
                "n","o","p","q","r","s","t","u","v","w","x","y","z">>

DigitChars == <<"0","1","2","3","4","5","6","7","8","9">>

Range(f) == {f[i] : i \in DOMAIN f}

Digits == Range(DigitChars)

\* LineTerminator of ECMAScript: the characters the dot of a regular
\* expression does not match
LineTerminators == {"\n", "\r", "u2028", "u2029"}

\* \s of a JavaScript regular expression, which is also StrWhiteSpaceChar of
\* Number(): WhiteSpace (tab, vertical tab, form feed, U+FEFF and the space
\* separators of Unicode) and LineTerminator
WhiteSpace ==
  { "\t", "u000B", "\f", " ", "u00A0", "u1680", "u2000", "u2001", "u2002",
    "u2003", "u2004", "u2005", "u2006", "u2007", "u2008", "u2009", "u200A",
    "u202F", "u205F", "u3000", "uFEFF" } \cup LineTerminators

\* \w of a JavaScript regular expression
WordChars == Range(UpperChars) \cup Range(LowerChars) \cup Digits \cup {"_"}

\* String.prototype.toLowerCase follows the case mappings of Unicode
\* (UnicodeData and SpecialCasing, version 17.0).  LowerCaseMappings gives the
\* code unit a code unit outside A-Z lowers to, when it does not lower to
\* itself; pairs lists each such code unit and, after it, its lower case.
\* (U+0130 lowers to two code units, see ToLowerChar.)
LowerCaseMappings ==
  LET pairs ==
        <<
          "u00C0", "u00E0", "u00C1", "u00E1", "u00C2", "u00E2", "u00C3",
          "u00E3", "u00C4", "u00E4", "u00C5", "u00E5", "u00C6", "u00E6",
          "u00C7", "u00E7", "u00C8", "u00E8", "u00C9", "u00E9", "u00CA",
          "u00EA", "u00CB", "u00EB", "u00CC", "u00EC", "u00CD", "u00ED",
          "u00CE", "u00EE", "u00CF", "u00EF", "u00D0", "u00F0", "u00D1",
          "u00F1", "u00D2", "u00F2", "u00D3", "u00F3", "u00D4", "u00F4",
          "u00D5", "u00F5", "u00D6", "u00F6", "u00D8", "u00F8", "u00D9",
          "u00F9", "u00DA", "u00FA", "u00DB", "u00FB", "u00DC", "u00FC",
          "u00DD", "u00FD", "u00DE", "u00FE", "u0100", "u0101", "u0102",
          "u0103", "u0104", "u0105", "u0106", "u0107", "u0108", "u0109",
          "u010A", "u010B", "u010C", "u010D", "u010E", "u010F", "u0110",
          "u0111", "u0112", "u0113", "u0114", "u0115", "u0116", "u0117",
          "u0118", "u0119", "u011A", "u011B", "u011C", "u011D", "u011E",
          "u011F", "u0120", "u0121", "u0122", "u0123", "u0124", "u0125",
          "u0126", "u0127", "u0128", "u0129", "u012A", "u012B", "u012C",
          "u012D", "u012E", "u012F", "u0132", "u0133", "u0134", "u0135",
          "u0136", "u0137", "u0139", "u013A", "u013B", "u013C", "u013D",
          "u013E", "u013F", "u0140", "u0141", "u0142", "u0143", "u0144",
          "u0145", "u0146", "u0147", "u0148", "u014A", "u014B", "u014C",
          "u014D", "u014E", "u014F", "u0150", "u0151", "u0152", "u0153",
          "u0154", "u0155", "u0156", "u0157", "u0158", "u0159", "u015A",
          "u015B", "u015C", "u015D", "u015E", "u015F", "u0160", "u0161",
          "u0162", "u0163", "u0164", "u0165", "u0166", "u0167", "u0168",
          "u0169", "u016A", "u016B", "u016C", "u016D", "u016E", "u016F",
          "u0170", "u0171", "u0172", "u0173", "u0174", "u0175", "u0176",
          "u0177", "u0178", "u00FF", "u0179", "u017A", "u017B", "u017C",
          "u017D", "u017E", "u0181", "u0253", "u0182", "u0183", "u0184",
          "u0185", "u0186", "u0254", "u0187", "u0188", "u0189", "u0256",
          "u018A", "u0257", "u018B", "u018C", "u018E", "u01DD", "u018F",
          "u0259", "u0190", "u025B", "u0191", "u0192", "u0193", "u0260",
          "u0194", "u0263", "u0196", "u0269", "u0197", "u0268", "u0198",
          "u0199", "u019C", "u026F", "u019D", "u0272", "u019F", "u0275",
          "u01A0", "u01A1", "u01A2", "u01A3", "u01A4", "u01A5", "u01A6",
          "u0280", "u01A7", "u01A8", "u01A9", "u0283", "u01AC", "u01AD",
          "u01AE", "u0288", "u01AF", "u01B0", "u01B1", "u028A", "u01B2",
          "u028B", "u01B3", "u01B4", "u01B5", "u01B6", "u01B7", "u0292",
          "u01B8", "u01B9", "u01BC", "u01BD", "u01C4", "u01C6", "u01C5",
          "u01C6", "u01C7", "u01C9", "u01C8", "u01C9", "u01CA", "u01CC",
          "u01CB", "u01CC", "u01CD", "u01CE", "u01CF", "u01D0", "u01D1",
          "u01D2", "u01D3", "u01D4", "u01D5", "u01D6", "u01D7", "u01D8",
          "u01D9", "u01DA", "u01DB", "u01DC", "u01DE", "u01DF", "u01E0",
          "u01E1", "u01E2", "u01E3", "u01E4", "u01E5", "u01E6", "u01E7",
          "u01E8", "u01E9", "u01EA", "u01EB", "u01EC", "u01ED", "u01EE",
          "u01EF", "u01F1", "u01F3", "u01F2", "u01F3", "u01F4", "u01F5",
          "u01F6", "u0195", "u01F7", "u01BF", "u01F8", "u01F9", "u01FA",
          "u01FB", "u01FC", "u01FD", "u01FE", "u01FF", "u0200", "u0201",
          "u0202", "u0203", "u0204", "u0205", "u0206", "u0207", "u0208",
          "u0209", "u020A", "u020B", "u020C", "u020D", "u020E", "u020F",
          "u0210", "u0211", "u0212", "u0213", "u0214", "u0215", "u0216",
          "u0217", "u0218", "u0219", "u021A", "u021B", "u021C", "u021D",
          "u021E", "u021F", "u0220", "u019E", "u0222", "u0223", "u0224",
          "u0225", "u0226", "u0227", "u0228", "u0229", "u022A", "u022B",
          "u022C", "u022D", "u022E", "u022F", "u0230", "u0231", "u0232",
          "u0233", "u023A", "u2C65", "u023B", "u023C", "u023D", "u019A",
          "u023E", "u2C66", "u0241", "u0242", "u0243", "u0180", "u0244",
          "u0289", "u0245", "u028C", "u0246", "u0247", "u0248", "u0249",
          "u024A", "u024B", "u024C", "u024D", "u024E", "u024F", "u0370",
          "u0371", "u0372", "u0373", "u0376", "u0377", "u037F", "u03F3",
          "u0386", "u03AC", "u0388", "u03AD", "u0389", "u03AE", "u038A",
          "u03AF", "u038C", "u03CC", "u038E", "u03CD", "u038F", "u03CE",
          "u0391", "u03B1", "u0392", "u03B2", "u0393", "u03B3", "u0394",
          "u03B4", "u0395", "u03B5", "u0396", "u03B6", "u0397", "u03B7",
          "u0398", "u03B8", "u0399", "u03B9", "u039A", "u03BA", "u039B",
          "u03BB", "u039C", "u03BC", "u039D", "u03BD", "u039E", "u03BE",
          "u039F", "u03BF", "u03A0", "u03C0", "u03A1", "u03C1", "u03A3",
          "u03C3", "u03A4", "u03C4", "u03A5", "u03C5", "u03A6", "u03C6",
          "u03A7", "u03C7", "u03A8", "u03C8", "u03A9", "u03C9", "u03AA",
          "u03CA", "u03AB", "u03CB", "u03CF", "u03D7", "u03D8", "u03D9",
          "u03DA", "u03DB", "u03DC", "u03DD", "u03DE", "u03DF", "u03E0",
          "u03E1", "u03E2", "u03E3", "u03E4", "u03E5", "u03E6", "u03E7",
          "u03E8", "u03E9", "u03EA", "u03EB", "u03EC", "u03ED", "u03EE",
          "u03EF", "u03F4", "u03B8", "u03F7", "u03F8", "u03F9", "u03F2",
          "u03FA", "u03FB", "u03FD", "u037B", "u03FE", "u037C", "u03FF",
          "u037D", "u0400", "u0450", "u0401", "u0451", "u0402", "u0452",
          "u0403", "u0453", "u0404", "u0454", "u0405", "u0455", "u0406",
          "u0456", "u0407", "u0457", "u0408", "u0458", "u0409", "u0459",
          "u040A", "u045A", "u040B", "u045B", "u040C", "u045C", "u040D",
          "u045D", "u040E", "u045E", "u040F", "u045F", "u0410", "u0430",
          "u0411", "u0431", "u0412", "u0432", "u0413", "u0433", "u0414",
          "u0434", "u0415", "u0435", "u0416", "u0436", "u0417", "u0437",
          "u0418", "u0438", "u0419", "u0439", "u041A", "u043A", "u041B",
          "u043B", "u041C", "u043C", "u041D", "u043D", "u041E", "u043E",
          "u041F", "u043F", "u0420", "u0440", "u0421", "u0441", "u0422",
          "u0442", "u0423", "u0443", "u0424", "u0444", "u0425", "u0445",
          "u0426", "u0446", "u0427", "u0447", "u0428", "u0448", "u0429",
          "u0449", "u042A", "u044A", "u042B", "u044B", "u042C", "u044C",
          "u042D", "u044D", "u042E", "u044E", "u042F", "u044F", "u0460",
          "u0461", "u0462", "u0463", "u0464", "u0465", "u0466", "u0467",
          "u0468", "u0469", "u046A", "u046B", "u046C", "u046D", "u046E",
          "u046F", "u0470", "u0471", "u0472", "u0473", "u0474", "u0475",
          "u0476", "u0477", "u0478", "u0479", "u047A", "u047B", "u047C",
          "u047D", "u047E", "u047F", "u0480", "u0481", "u048A", "u048B",
          "u048C", "u048D", "u048E", "u048F", "u0490", "u0491", "u0492",
          "u0493", "u0494", "u0495", "u0496", "u0497", "u0498", "u0499",
          "u049A", "u049B", "u049C", "u049D", "u049E", "u049F", "u04A0",
          "u04A1", "u04A2", "u04A3", "u04A4", "u04A5", "u04A6", "u04A7",
          "u04A8", "u04A9", "u04AA", "u04AB", "u04AC", "u04AD", "u04AE",
          "u04AF", "u04B0", "u04B1", "u04B2", "u04B3", "u04B4", "u04B5",
          "u04B6", "u04B7", "u04B8", "u04B9", "u04BA", "u04BB", "u04BC",
          "u04BD", "u04BE", "u04BF", "u04C0", "u04CF", "u04C1", "u04C2",
          "u04C3", "u04C4", "u04C5", "u04C6", "u04C7", "u04C8", "u04C9",
          "u04CA", "u04CB", "u04CC", "u04CD", "u04CE", "u04D0", "u04D1",
          "u04D2", "u04D3", "u04D4", "u04D5", "u04D6", "u04D7", "u04D8",
          "u04D9", "u04DA", "u04DB", "u04DC", "u04DD", "u04DE", "u04DF",
          "u04E0", "u04E1", "u04E2", "u04E3", "u04E4", "u04E5", "u04E6",
          "u04E7", "u04E8", "u04E9", "u04EA", "u04EB", "u04EC", "u04ED",
          "u04EE", "u04EF", "u04F0", "u04F1", "u04F2", "u04F3", "u04F4",
          "u04F5", "u04F6", "u04F7", "u04F8", "u04F9", "u04FA", "u04FB",
          "u04FC", "u04FD", "u04FE", "u04FF", "u0500", "u0501", "u0502",
          "u0503", "u0504", "u0505", "u0506", "u0507", "u0508", "u0509",
          "u050A", "u050B", "u050C", "u050D", "u050E", "u050F", "u0510",
          "u0511", "u0512", "u0513", "u0514", "u0515", "u0516", "u0517",
          "u0518", "u0519", "u051A", "u051B", "u051C", "u051D", "u051E",
          "u051F", "u0520", "u0521", "u0522", "u0523", "u0524", "u0525",
          "u0526", "u0527", "u0528", "u0529", "u052A", "u052B", "u052C",
          "u052D", "u052E", "u052F", "u0531", "u0561", "u0532", "u0562",
          "u0533", "u0563", "u0534", "u0564", "u0535", "u0565", "u0536",
          "u0566", "u0537", "u0567", "u0538", "u0568", "u0539", "u0569",
          "u053A", "u056A", "u053B", "u056B", "u053C", "u056C", "u053D",
          "u056D", "u053E", "u056E", "u053F", "u056F", "u0540", "u0570",
          "u0541", "u0571", "u0542", "u0572", "u0543", "u0573", "u0544",
          "u0574", "u0545", "u0575", "u0546", "u0576", "u0547", "u0577",
          "u0548", "u0578", "u0549", "u0579", "u054A", "u057A", "u054B",
          "u057B", "u054C", "u057C", "u054D", "u057D", "u054E", "u057E",
          "u054F", "u057F", "u0550", "u0580", "u0551", "u0581", "u0552",
          "u0582", "u0553", "u0583", "u0554", "u0584", "u0555", "u0585",
          "u0556", "u0586", "u10A0", "u2D00", "u10A1", "u2D01", "u10A2",
          "u2D02", "u10A3", "u2D03", "u10A4", "u2D04", "u10A5", "u2D05",
          "u10A6", "u2D06", "u10A7", "u2D07", "u10A8", "u2D08", "u10A9",
          "u2D09", "u10AA", "u2D0A", "u10AB", "u2D0B", "u10AC", "u2D0C",
          "u10AD", "u2D0D", "u10AE", "u2D0E", "u10AF", "u2D0F", "u10B0",
          "u2D10", "u10B1", "u2D11", "u10B2", "u2D12", "u10B3", "u2D13",
          "u10B4", "u2D14", "u10B5", "u2D15", "u10B6", "u2D16", "u10B7",
          "u2D17", "u10B8", "u2D18", "u10B9", "u2D19", "u10BA", "u2D1A",
          "u10BB", "u2D1B", "u10BC", "u2D1C", "u10BD", "u2D1D", "u10BE",
          "u2D1E", "u10BF", "u2D1F", "u10C0", "u2D20", "u10C1", "u2D21",
          "u10C2", "u2D22", "u10C3", "u2D23", "u10C4", "u2D24", "u10C5",
          "u2D25", "u10C7", "u2D27", "u10CD", "u2D2D", "u13A0", "uAB70",
          "u13A1", "uAB71", "u13A2", "uAB72", "u13A3", "uAB73", "u13A4",
          "uAB74", "u13A5", "uAB75", "u13A6", "uAB76", "u13A7", "uAB77",
          "u13A8", "uAB78", "u13A9", "uAB79", "u13AA", "uAB7A", "u13AB",
          "uAB7B", "u13AC", "uAB7C", "u13AD", "uAB7D", "u13AE", "uAB7E",
          "u13AF", "uAB7F", "u13B0", "uAB80", "u13B1", "uAB81", "u13B2",
          "uAB82", "u13B3", "uAB83", "u13B4", "uAB84", "u13B5", "uAB85",
          "u13B6", "uAB86", "u13B7", "uAB87", "u13B8", "uAB88", "u13B9",
          "uAB89", "u13BA", "uAB8A", "u13BB", "uAB8B", "u13BC", "uAB8C",
          "u13BD", "uAB8D", "u13BE", "uAB8E", "u13BF", "uAB8F", "u13C0",
          "uAB90", "u13C1", "uAB91", "u13C2", "uAB92", "u13C3", "uAB93",
          "u13C4", "uAB94", "u13C5", "uAB95", "u13C6", "uAB96", "u13C7",
          "uAB97", "u13C8", "uAB98", "u13C9", "uAB99", "u13CA", "uAB9A",
          "u13CB", "uAB9B", "u13CC", "uAB9C", "u13CD", "uAB9D", "u13CE",
          "uAB9E", "u13CF", "uAB9F", "u13D0", "uABA0", "u13D1", "uABA1",
          "u13D2", "uABA2", "u13D3", "uABA3", "u13D4", "uABA4", "u13D5",
          "uABA5", "u13D6", "uABA6", "u13D7", "uABA7", "u13D8", "uABA8",
          "u13D9", "uABA9", "u13DA", "uABAA", "u13DB", "uABAB", "u13DC",
          "uABAC", "u13DD", "uABAD", "u13DE", "uABAE", "u13DF", "uABAF",
          "u13E0", "uABB0", "u13E1", "uABB1", "u13E2", "uABB2", "u13E3",
          "uABB3", "u13E4", "uABB4", "u13E5", "uABB5", "u13E6", "uABB6",
          "u13E7", "uABB7", "u13E8", "uABB8", "u13E9", "uABB9", "u13EA",
          "uABBA", "u13EB", "uABBB", "u13EC", "uABBC", "u13ED", "uABBD",
          "u13EE", "uABBE", "u13EF", "uABBF", "u13F0", "u13F8", "u13F1",
          "u13F9", "u13F2", "u13FA", "u13F3", "u13FB", "u13F4", "u13FC",
          "u13F5", "u13FD", "u1C89", "u1C8A", "u1C90", "u10D0", "u1C91",
          "u10D1", "u1C92", "u10D2", "u1C93", "u10D3", "u1C94", "u10D4",
          "u1C95", "u10D5", "u1C96", "u10D6", "u1C97", "u10D7", "u1C98",
          "u10D8", "u1C99", "u10D9", "u1C9A", "u10DA", "u1C9B", "u10DB",
          "u1C9C", "u10DC", "u1C9D", "u10DD", "u1C9E", "u10DE", "u1C9F",
          "u10DF", "u1CA0", "u10E0", "u1CA1", "u10E1", "u1CA2", "u10E2",
          "u1CA3", "u10E3", "u1CA4", "u10E4", "u1CA5", "u10E5", "u1CA6",
          "u10E6", "u1CA7", "u10E7", "u1CA8", "u10E8", "u1CA9", "u10E9",
          "u1CAA", "u10EA", "u1CAB", "u10EB", "u1CAC", "u10EC", "u1CAD",
          "u10ED", "u1CAE", "u10EE", "u1CAF", "u10EF", "u1CB0", "u10F0",
          "u1CB1", "u10F1", "u1CB2", "u10F2", "u1CB3", "u10F3", "u1CB4",
          "u10F4", "u1CB5", "u10F5", "u1CB6", "u10F6", "u1CB7", "u10F7",
          "u1CB8", "u10F8", "u1CB9", "u10F9", "u1CBA", "u10FA", "u1CBD",
          "u10FD", "u1CBE", "u10FE", "u1CBF", "u10FF", "u1E00", "u1E01",
          "u1E02", "u1E03", "u1E04", "u1E05", "u1E06", "u1E07", "u1E08",
          "u1E09", "u1E0A", "u1E0B", "u1E0C", "u1E0D", "u1E0E", "u1E0F",
          "u1E10", "u1E11", "u1E12", "u1E13", "u1E14", "u1E15", "u1E16",
          "u1E17", "u1E18", "u1E19", "u1E1A", "u1E1B", "u1E1C", "u1E1D",
          "u1E1E", "u1E1F", "u1E20", "u1E21", "u1E22", "u1E23", "u1E24",
          "u1E25", "u1E26", "u1E27", "u1E28", "u1E29", "u1E2A", "u1E2B",
          "u1E2C", "u1E2D", "u1E2E", "u1E2F", "u1E30", "u1E31", "u1E32",
          "u1E33", "u1E34", "u1E35", "u1E36", "u1E37", "u1E38", "u1E39",
          "u1E3A", "u1E3B", "u1E3C", "u1E3D", "u1E3E", "u1E3F", "u1E40",
          "u1E41", "u1E42", "u1E43", "u1E44", "u1E45", "u1E46", "u1E47",
          "u1E48", "u1E49", "u1E4A", "u1E4B", "u1E4C", "u1E4D", "u1E4E",
          "u1E4F", "u1E50", "u1E51", "u1E52", "u1E53", "u1E54", "u1E55",
          "u1E56", "u1E57", "u1E58", "u1E59", "u1E5A", "u1E5B", "u1E5C",
          "u1E5D", "u1E5E", "u1E5F", "u1E60", "u1E61", "u1E62", "u1E63",
          "u1E64", "u1E65", "u1E66", "u1E67", "u1E68", "u1E69", "u1E6A",
          "u1E6B", "u1E6C", "u1E6D", "u1E6E", "u1E6F", "u1E70", "u1E71",
          "u1E72", "u1E73", "u1E74", "u1E75", "u1E76", "u1E77", "u1E78",
          "u1E79", "u1E7A", "u1E7B", "u1E7C", "u1E7D", "u1E7E", "u1E7F",
          "u1E80", "u1E81", "u1E82", "u1E83", "u1E84", "u1E85", "u1E86",
          "u1E87", "u1E88", "u1E89", "u1E8A", "u1E8B", "u1E8C", "u1E8D",
          "u1E8E", "u1E8F", "u1E90", "u1E91", "u1E92", "u1E93", "u1E94",
          "u1E95", "u1E9E", "u00DF", "u1EA0", "u1EA1", "u1EA2", "u1EA3",
          "u1EA4", "u1EA5", "u1EA6", "u1EA7", "u1EA8", "u1EA9", "u1EAA",
          "u1EAB", "u1EAC", "u1EAD", "u1EAE", "u1EAF", "u1EB0", "u1EB1",
          "u1EB2", "u1EB3", "u1EB4", "u1EB5", "u1EB6", "u1EB7", "u1EB8",
          "u1EB9", "u1EBA", "u1EBB", "u1EBC", "u1EBD", "u1EBE", "u1EBF",
          "u1EC0", "u1EC1", "u1EC2", "u1EC3", "u1EC4", "u1EC5", "u1EC6",
          "u1EC7", "u1EC8", "u1EC9", "u1ECA", "u1ECB", "u1ECC", "u1ECD",
          "u1ECE", "u1ECF", "u1ED0", "u1ED1", "u1ED2", "u1ED3", "u1ED4",
          "u1ED5", "u1ED6", "u1ED7", "u1ED8", "u1ED9", "u1EDA", "u1EDB",
          "u1EDC", "u1EDD", "u1EDE", "u1EDF", "u1EE0", "u1EE1", "u1EE2",
          "u1EE3", "u1EE4", "u1EE5", "u1EE6", "u1EE7", "u1EE8", "u1EE9",
          "u1EEA", "u1EEB", "u1EEC", "u1EED", "u1EEE", "u1EEF", "u1EF0",
          "u1EF1", "u1EF2", "u1EF3", "u1EF4", "u1EF5", "u1EF6", "u1EF7",
          "u1EF8", "u1EF9", "u1EFA", "u1EFB", "u1EFC", "u1EFD", "u1EFE",
          "u1EFF", "u1F08", "u1F00", "u1F09", "u1F01", "u1F0A", "u1F02",
          "u1F0B", "u1F03", "u1F0C", "u1F04", "u1F0D", "u1F05", "u1F0E",
          "u1F06", "u1F0F", "u1F07", "u1F18", "u1F10", "u1F19", "u1F11",
          "u1F1A", "u1F12", "u1F1B", "u1F13", "u1F1C", "u1F14", "u1F1D",
          "u1F15", "u1F28", "u1F20", "u1F29", "u1F21", "u1F2A", "u1F22",
          "u1F2B", "u1F23", "u1F2C", "u1F24", "u1F2D", "u1F25", "u1F2E",
          "u1F26", "u1F2F", "u1F27", "u1F38", "u1F30", "u1F39", "u1F31",
          "u1F3A", "u1F32", "u1F3B", "u1F33", "u1F3C", "u1F34", "u1F3D",
          "u1F35", "u1F3E", "u1F36", "u1F3F", "u1F37", "u1F48", "u1F40",
          "u1F49", "u1F41", "u1F4A", "u1F42", "u1F4B", "u1F43", "u1F4C",
          "u1F44", "u1F4D", "u1F45", "u1F59", "u1F51", "u1F5B", "u1F53",
          "u1F5D", "u1F55", "u1F5F", "u1F57", "u1F68", "u1F60", "u1F69",
          "u1F61", "u1F6A", "u1F62", "u1F6B", "u1F63", "u1F6C", "u1F64",
          "u1F6D", "u1F65", "u1F6E", "u1F66", "u1F6F", "u1F67", "u1F88",
          "u1F80", "u1F89", "u1F81", "u1F8A", "u1F82", "u1F8B", "u1F83",
          "u1F8C", "u1F84", "u1F8D", "u1F85", "u1F8E", "u1F86", "u1F8F",
          "u1F87", "u1F98", "u1F90", "u1F99", "u1F91", "u1F9A", "u1F92",
          "u1F9B", "u1F93", "u1F9C", "u1F94", "u1F9D", "u1F95", "u1F9E",
          "u1F96", "u1F9F", "u1F97", "u1FA8", "u1FA0", "u1FA9", "u1FA1",
          "u1FAA", "u1FA2", "u1FAB", "u1FA3", "u1FAC", "u1FA4", "u1FAD",
          "u1FA5", "u1FAE", "u1FA6", "u1FAF", "u1FA7", "u1FB8", "u1FB0",
          "u1FB9", "u1FB1", "u1FBA", "u1F70", "u1FBB", "u1F71", "u1FBC",
          "u1FB3", "u1FC8", "u1F72", "u1FC9", "u1F73", "u1FCA", "u1F74",
          "u1FCB", "u1F75", "u1FCC", "u1FC3", "u1FD8", "u1FD0", "u1FD9",
          "u1FD1", "u1FDA", "u1F76", "u1FDB", "u1F77", "u1FE8", "u1FE0",
          "u1FE9", "u1FE1", "u1FEA", "u1F7A", "u1FEB", "u1F7B", "u1FEC",
          "u1FE5", "u1FF8", "u1F78", "u1FF9", "u1F79", "u1FFA", "u1F7C",
          "u1FFB", "u1F7D", "u1FFC", "u1FF3", "u2126", "u03C9", "u212A", "k",
          "u212B", "u00E5", "u2132", "u214E", "u2160", "u2170", "u2161",
          "u2171", "u2162", "u2172", "u2163", "u2173", "u2164", "u2174",
          "u2165", "u2175", "u2166", "u2176", "u2167", "u2177", "u2168",
          "u2178", "u2169", "u2179", "u216A", "u217A", "u216B", "u217B",
          "u216C", "u217C", "u216D", "u217D", "u216E", "u217E", "u216F",
          "u217F", "u2183", "u2184", "u24B6", "u24D0", "u24B7", "u24D1",
          "u24B8", "u24D2", "u24B9", "u24D3", "u24BA", "u24D4", "u24BB",
          "u24D5", "u24BC", "u24D6", "u24BD", "u24D7", "u24BE", "u24D8",
          "u24BF", "u24D9", "u24C0", "u24DA", "u24C1", "u24DB", "u24C2",
          "u24DC", "u24C3", "u24DD", "u24C4", "u24DE", "u24C5", "u24DF",
          "u24C6", "u24E0", "u24C7", "u24E1", "u24C8", "u24E2", "u24C9",
          "u24E3", "u24CA", "u24E4", "u24CB", "u24E5", "u24CC", "u24E6",
          "u24CD", "u24E7", "u24CE", "u24E8", "u24CF", "u24E9", "u2C00",
          "u2C30", "u2C01", "u2C31", "u2C02", "u2C32", "u2C03", "u2C33",
          "u2C04", "u2C34", "u2C05", "u2C35", "u2C06", "u2C36", "u2C07",
          "u2C37", "u2C08", "u2C38", "u2C09", "u2C39", "u2C0A", "u2C3A",
          "u2C0B", "u2C3B", "u2C0C", "u2C3C", "u2C0D", "u2C3D", "u2C0E",
          "u2C3E", "u2C0F", "u2C3F", "u2C10", "u2C40", "u2C11", "u2C41",
          "u2C12", "u2C42", "u2C13", "u2C43", "u2C14", "u2C44", "u2C15",
          "u2C45", "u2C16", "u2C46", "u2C17", "u2C47", "u2C18", "u2C48",
          "u2C19", "u2C49", "u2C1A", "u2C4A", "u2C1B", "u2C4B", "u2C1C",
          "u2C4C", "u2C1D", "u2C4D", "u2C1E", "u2C4E", "u2C1F", "u2C4F",
          "u2C20", "u2C50", "u2C21", "u2C51", "u2C22", "u2C52", "u2C23",
          "u2C53", "u2C24", "u2C54", "u2C25", "u2C55", "u2C26", "u2C56",
          "u2C27", "u2C57", "u2C28", "u2C58", "u2C29", "u2C59", "u2C2A",
          "u2C5A", "u2C2B", "u2C5B", "u2C2C", "u2C5C", "u2C2D", "u2C5D",
          "u2C2E", "u2C5E", "u2C2F", "u2C5F", "u2C60", "u2C61", "u2C62",
          "u026B", "u2C63", "u1D7D", "u2C64", "u027D", "u2C67", "u2C68",
          "u2C69", "u2C6A", "u2C6B", "u2C6C", "u2C6D", "u0251", "u2C6E",
          "u0271", "u2C6F", "u0250", "u2C70", "u0252", "u2C72", "u2C73",
          "u2C75", "u2C76", "u2C7E", "u023F", "u2C7F", "u0240", "u2C80",
          "u2C81", "u2C82", "u2C83", "u2C84", "u2C85", "u2C86", "u2C87",
          "u2C88", "u2C89", "u2C8A", "u2C8B", "u2C8C", "u2C8D", "u2C8E",
          "u2C8F", "u2C90", "u2C91", "u2C92", "u2C93", "u2C94", "u2C95",
          "u2C96", "u2C97", "u2C98", "u2C99", "u2C9A", "u2C9B", "u2C9C",
          "u2C9D", "u2C9E", "u2C9F", "u2CA0", "u2CA1", "u2CA2", "u2CA3",
          "u2CA4", "u2CA5", "u2CA6", "u2CA7", "u2CA8", "u2CA9", "u2CAA",
          "u2CAB", "u2CAC", "u2CAD", "u2CAE", "u2CAF", "u2CB0", "u2CB1",
          "u2CB2", "u2CB3", "u2CB4", "u2CB5", "u2CB6", "u2CB7", "u2CB8",
          "u2CB9", "u2CBA", "u2CBB", "u2CBC", "u2CBD", "u2CBE", "u2CBF",
          "u2CC0", "u2CC1", "u2CC2", "u2CC3", "u2CC4", "u2CC5", "u2CC6",
          "u2CC7", "u2CC8", "u2CC9", "u2CCA", "u2CCB", "u2CCC", "u2CCD",
          "u2CCE", "u2CCF", "u2CD0", "u2CD1", "u2CD2", "u2CD3", "u2CD4",
          "u2CD5", "u2CD6", "u2CD7", "u2CD8", "u2CD9", "u2CDA", "u2CDB",
          "u2CDC", "u2CDD", "u2CDE", "u2CDF", "u2CE0", "u2CE1", "u2CE2",
          "u2CE3", "u2CEB", "u2CEC", "u2CED", "u2CEE", "u2CF2", "u2CF3",
          "uA640", "uA641", "uA642", "uA643", "uA644", "uA645", "uA646",
          "uA647", "uA648", "uA649", "uA64A", "uA64B", "uA64C", "uA64D",
          "uA64E", "uA64F", "uA650", "uA651", "uA652", "uA653", "uA654",
          "uA655", "uA656", "uA657", "uA658", "uA659", "uA65A", "uA65B",
          "uA65C", "uA65D", "uA65E", "uA65F", "uA660", "uA661", "uA662",
          "uA663", "uA664", "uA665", "uA666", "uA667", "uA668", "uA669",
          "uA66A", "uA66B", "uA66C", "uA66D", "uA680", "uA681", "uA682",
          "uA683", "uA684", "uA685", "uA686", "uA687", "uA688", "uA689",
          "uA68A", "uA68B", "uA68C", "uA68D", "uA68E", "uA68F", "uA690",
          "uA691", "uA692", "uA693", "uA694", "uA695", "uA696", "uA697",
          "uA698", "uA699", "uA69A", "uA69B", "uA722", "uA723", "uA724",
          "uA725", "uA726", "uA727", "uA728", "uA729", "uA72A", "uA72B",
          "uA72C", "uA72D", "uA72E", "uA72F", "uA732", "uA733", "uA734",
          "uA735", "uA736", "uA737", "uA738", "uA739", "uA73A", "uA73B",
          "uA73C", "uA73D", "uA73E", "uA73F", "uA740", "uA741", "uA742",
          "uA743", "uA744", "uA745", "uA746", "uA747", "uA748", "uA749",
          "uA74A", "uA74B", "uA74C", "uA74D", "uA74E", "uA74F", "uA750",
          "uA751", "uA752", "uA753", "uA754", "uA755", "uA756", "uA757",
          "uA758", "uA759", "uA75A", "uA75B", "uA75C", "uA75D", "uA75E",
          "uA75F", "uA760", "uA761", "uA762", "uA763", "uA764", "uA765",
          "uA766", "uA767", "uA768", "uA769", "uA76A", "uA76B", "uA76C",
          "uA76D", "uA76E", "uA76F", "uA779", "uA77A", "uA77B", "uA77C",
          "uA77D", "u1D79", "uA77E", "uA77F", "uA780", "uA781", "uA782",
          "uA783", "uA784", "uA785", "uA786", "uA787", "uA78B", "uA78C",
          "uA78D", "u0265", "uA790", "uA791", "uA792", "uA793", "uA796",
          "uA797", "uA798", "uA799", "uA79A", "uA79B", "uA79C", "uA79D",
          "uA79E", "uA79F", "uA7A0", "uA7A1", "uA7A2", "uA7A3", "uA7A4",
          "uA7A5", "uA7A6", "uA7A7", "uA7A8", "uA7A9", "uA7AA", "u0266",
          "uA7AB", "u025C", "uA7AC", "u0261", "uA7AD", "u026C", "uA7AE",
          "u026A", "uA7B0", "u029E", "uA7B1", "u0287", "uA7B2", "u029D",
          "uA7B3", "uAB53", "uA7B4", "uA7B5", "uA7B6", "uA7B7", "uA7B8",
          "uA7B9", "uA7BA", "uA7BB", "uA7BC", "uA7BD", "uA7BE", "uA7BF",
          "uA7C0", "uA7C1", "uA7C2", "uA7C3", "uA7C4", "uA794", "uA7C5",
          "u0282", "uA7C6", "u1D8E", "uA7C7", "uA7C8", "uA7C9", "uA7CA",
          "uA7CB", "u0264", "uA7CC", "uA7CD", "uA7CE", "uA7CF", "uA7D0",
          "uA7D1", "uA7D2", "uA7D3", "uA7D4", "uA7D5", "uA7D6", "uA7D7",
          "uA7D8", "uA7D9", "uA7DA", "uA7DB", "uA7DC", "u019B", "uA7F5",
          "uA7F6", "uFF21", "uFF41", "uFF22", "uFF42", "uFF23", "uFF43",
          "uFF24", "uFF44", "uFF25", "uFF45", "uFF26", "uFF46", "uFF27",
          "uFF47", "uFF28", "uFF48", "uFF29", "uFF49", "uFF2A", "uFF4A",
          "uFF2B", "uFF4B", "uFF2C", "uFF4C", "uFF2D", "uFF4D", "uFF2E",
          "uFF4E", "uFF2F", "uFF4F", "uFF30", "uFF50", "uFF31", "uFF51",
          "uFF32", "uFF52", "uFF33", "uFF53", "uFF34", "uFF54", "uFF35",
          "uFF55", "uFF36", "uFF56", "uFF37", "uFF57", "uFF38", "uFF58",
          "uFF39", "uFF59", "uFF3A", "uFF5A" >>
      half == Len(pairs) \div 2
  IN [c \in {pairs[(2 * i) - 1] : i \in 1..half} |->
        pairs[2 * (CHOOSE i \in 1..half : pairs[(2 * i) - 1] = c)]]

\* The lower case of the letters written as surrogate pairs: the high
\* surrogate is kept, the low surrogate is replaced.  triples lists the high
\* surrogate, the low surrogate and the low surrogate of the lower case.
LowerCaseAstralMappings ==
  LET triples ==
        <<
          "uD801", "uDC00", "uDC28", "uD801", "uDC01", "uDC29", "uD801",
          "uDC02", "uDC2A", "uD801", "uDC03", "uDC2B", "uD801", "uDC04",
          "uDC2C", "uD801", "uDC05", "uDC2D", "uD801", "uDC06", "uDC2E",
          "uD801", "uDC07", "uDC2F", "uD801", "uDC08", "uDC30", "uD801",
          "uDC09", "uDC31", "uD801", "uDC0A", "uDC32", "uD801", "uDC0B",
          "uDC33", "uD801", "uDC0C", "uDC34", "uD801", "uDC0D", "uDC35",
          "uD801", "uDC0E", "uDC36", "uD801", "uDC0F", "uDC37", "uD801",
          "uDC10", "uDC38", "uD801", "uDC11", "uDC39", "uD801", "uDC12",
          "uDC3A", "uD801", "uDC13", "uDC3B", "uD801", "uDC14", "uDC3C",
          "uD801", "uDC15", "uDC3D", "uD801", "uDC16", "uDC3E", "uD801",
          "uDC17", "uDC3F", "uD801", "uDC18", "uDC40", "uD801", "uDC19",
          "uDC41", "uD801", "uDC1A", "uDC42", "uD801", "uDC1B", "uDC43",
          "uD801", "uDC1C", "uDC44", "uD801", "uDC1D", "uDC45", "uD801",
          "uDC1E", "uDC46", "uD801", "uDC1F", "uDC47", "uD801", "uDC20",
          "uDC48", "uD801", "uDC21", "uDC49", "uD801", "uDC22", "uDC4A",
          "uD801", "uDC23", "uDC4B", "uD801", "uDC24", "uDC4C", "uD801",
          "uDC25", "uDC4D", "uD801", "uDC26", "uDC4E", "uD801", "uDC27",
          "uDC4F", "uD801", "uDCB0", "uDCD8", "uD801", "uDCB1", "uDCD9",
          "uD801", "uDCB2", "uDCDA", "uD801", "uDCB3", "uDCDB", "uD801",
          "uDCB4", "uDCDC", "uD801", "uDCB5", "uDCDD", "uD801", "uDCB6",
          "uDCDE", "uD801", "uDCB7", "uDCDF", "uD801", "uDCB8", "uDCE0",
          "uD801", "uDCB9", "uDCE1", "uD801", "uDCBA", "uDCE2", "uD801",
          "uDCBB", "uDCE3", "uD801", "uDCBC", "uDCE4", "uD801", "uDCBD",
          "uDCE5", "uD801", "uDCBE", "uDCE6", "uD801", "uDCBF", "uDCE7",
          "uD801", "uDCC0", "uDCE8", "uD801", "uDCC1", "uDCE9", "uD801",
          "uDCC2", "uDCEA", "uD801", "uDCC3", "uDCEB", "uD801", "uDCC4",
          "uDCEC", "uD801", "uDCC5", "uDCED", "uD801", "uDCC6", "uDCEE",
          "uD801", "uDCC7", "uDCEF", "uD801", "uDCC8", "uDCF0", "uD801",
          "uDCC9", "uDCF1", "uD801", "uDCCA", "uDCF2", "uD801", "uDCCB",
          "uDCF3", "uD801", "uDCCC", "uDCF4", "uD801", "uDCCD", "uDCF5",
          "uD801", "uDCCE", "uDCF6", "uD801", "uDCCF", "uDCF7", "uD801",
          "uDCD0", "uDCF8", "uD801", "uDCD1", "uDCF9", "uD801", "uDCD2",
          "uDCFA", "uD801", "uDCD3", "uDCFB", "uD801", "uDD70", "uDD97",
          "uD801", "uDD71", "uDD98", "uD801", "uDD72", "uDD99", "uD801",
          "uDD73", "uDD9A", "uD801", "uDD74", "uDD9B", "uD801", "uDD75",
          "uDD9C", "uD801", "uDD76", "uDD9D", "uD801", "uDD77", "uDD9E",
          "uD801", "uDD78", "uDD9F", "uD801", "uDD79", "uDDA0", "uD801",
          "uDD7A", "uDDA1", "uD801", "uDD7C", "uDDA3", "uD801", "uDD7D",
          "uDDA4", "uD801", "uDD7E", "uDDA5", "uD801", "uDD7F", "uDDA6",
          "uD801", "uDD80", "uDDA7", "uD801", "uDD81", "uDDA8", "uD801",
          "uDD82", "uDDA9", "uD801", "uDD83", "uDDAA", "uD801", "uDD84",
          "uDDAB", "uD801", "uDD85", "uDDAC", "uD801", "uDD86", "uDDAD",
          "uD801", "uDD87", "uDDAE", "uD801", "uDD88", "uDDAF", "uD801",
          "uDD89", "uDDB0", "uD801", "uDD8A", "uDDB1", "uD801", "uDD8C",
          "uDDB3", "uD801", "uDD8D", "uDDB4", "uD801", "uDD8E", "uDDB5",
          "uD801", "uDD8F", "uDDB6", "uD801", "uDD90", "uDDB7", "uD801",
          "uDD91", "uDDB8", "uD801", "uDD92", "uDDB9", "uD801", "uDD94",
          "uDDBB", "uD801", "uDD95", "uDDBC", "uD803", "uDC80", "uDCC0",
          "uD803", "uDC81", "uDCC1", "uD803", "uDC82", "uDCC2", "uD803",
          "uDC83", "uDCC3", "uD803", "uDC84", "uDCC4", "uD803", "uDC85",
          "uDCC5", "uD803", "uDC86", "uDCC6", "uD803", "uDC87", "uDCC7",
          "uD803", "uDC88", "uDCC8", "uD803", "uDC89", "uDCC9", "uD803",
          "uDC8A", "uDCCA", "uD803", "uDC8B", "uDCCB", "uD803", "uDC8C",
          "uDCCC", "uD803", "uDC8D", "uDCCD", "uD803", "uDC8E", "uDCCE",
          "uD803", "uDC8F", "uDCCF", "uD803", "uDC90", "uDCD0", "uD803",
          "uDC91", "uDCD1", "uD803", "uDC92", "uDCD2", "uD803", "uDC93",
          "uDCD3", "uD803", "uDC94", "uDCD4", "uD803", "uDC95", "uDCD5",
          "uD803", "uDC96", "uDCD6", "uD803", "uDC97", "uDCD7", "uD803",
          "uDC98", "uDCD8", "uD803", "uDC99", "uDCD9", "uD803", "uDC9A",
          "uDCDA", "uD803", "uDC9B", "uDCDB", "uD803", "uDC9C", "uDCDC",
          "uD803", "uDC9D", "uDCDD", "uD803", "uDC9E", "uDCDE", "uD803",
          "uDC9F", "uDCDF", "uD803", "uDCA0", "uDCE0", "uD803", "uDCA1",
          "uDCE1", "uD803", "uDCA2", "uDCE2", "uD803", "uDCA3", "uDCE3",
          "uD803", "uDCA4", "uDCE4", "uD803", "uDCA5", "uDCE5", "uD803",
          "uDCA6", "uDCE6", "uD803", "uDCA7", "uDCE7", "uD803", "uDCA8",
          "uDCE8", "uD803", "uDCA9", "uDCE9", "uD803", "uDCAA", "uDCEA",
          "uD803", "uDCAB", "uDCEB", "uD803", "uDCAC", "uDCEC", "uD803",
          "uDCAD", "uDCED", "uD803", "uDCAE", "uDCEE", "uD803", "uDCAF",
          "uDCEF", "uD803", "uDCB0", "uDCF0", "uD803", "uDCB1", "uDCF1",
          "uD803", "uDCB2", "uDCF2", "uD803", "uDD50", "uDD70", "uD803",
          "uDD51", "uDD71", "uD803", "uDD52", "uDD72", "uD803", "uDD53",
          "uDD73", "uD803", "uDD54", "uDD74", "uD803", "uDD55", "uDD75",
          "uD803", "uDD56", "uDD76", "uD803", "uDD57", "uDD77", "uD803",
          "uDD58", "uDD78", "uD803", "uDD59", "uDD79", "uD803", "uDD5A",
          "uDD7A", "uD803", "uDD5B", "uDD7B", "uD803", "uDD5C", "uDD7C",
          "uD803", "uDD5D", "uDD7D", "uD803", "uDD5E", "uDD7E", "uD803",
          "uDD5F", "uDD7F", "uD803", "uDD60", "uDD80", "uD803", "uDD61",
          "uDD81", "uD803", "uDD62", "uDD82", "uD803", "uDD63", "uDD83",
          "uD803", "uDD64", "uDD84", "uD803", "uDD65", "uDD85", "uD806",
          "uDCA0", "uDCC0", "uD806", "uDCA1", "uDCC1", "uD806", "uDCA2",
          "uDCC2", "uD806", "uDCA3", "uDCC3", "uD806", "uDCA4", "uDCC4",
          "uD806", "uDCA5", "uDCC5", "uD806", "uDCA6", "uDCC6", "uD806",
          "uDCA7", "uDCC7", "uD806", "uDCA8", "uDCC8", "uD806", "uDCA9",
          "uDCC9", "uD806", "uDCAA", "uDCCA", "uD806", "uDCAB", "uDCCB",
          "uD806", "uDCAC", "uDCCC", "uD806", "uDCAD", "uDCCD", "uD806",
          "uDCAE", "uDCCE", "uD806", "uDCAF", "uDCCF", "uD806", "uDCB0",
          "uDCD0", "uD806", "uDCB1", "uDCD1", "uD806", "uDCB2", "uDCD2",
          "uD806", "uDCB3", "uDCD3", "uD806", "uDCB4", "uDCD4", "uD806",
          "uDCB5", "uDCD5", "uD806", "uDCB6", "uDCD6", "uD806", "uDCB7",
          "uDCD7", "uD806", "uDCB8", "uDCD8", "uD806", "uDCB9", "uDCD9",
          "uD806", "uDCBA", "uDCDA", "uD806", "uDCBB", "uDCDB", "uD806",
          "uDCBC", "uDCDC", "uD806", "uDCBD", "uDCDD", "uD806", "uDCBE",
          "uDCDE", "uD806", "uDCBF", "uDCDF", "uD81B", "uDE40", "uDE60",
          "uD81B", "uDE41", "uDE61", "uD81B", "uDE42", "uDE62", "uD81B",
          "uDE43", "uDE63", "uD81B", "uDE44", "uDE64", "uD81B", "uDE45",
          "uDE65", "uD81B", "uDE46", "uDE66", "uD81B", "uDE47", "uDE67",
          "uD81B", "uDE48", "uDE68", "uD81B", "uDE49", "uDE69", "uD81B",
          "uDE4A", "uDE6A", "uD81B", "uDE4B", "uDE6B", "uD81B", "uDE4C",
          "uDE6C", "uD81B", "uDE4D", "uDE6D", "uD81B", "uDE4E", "uDE6E",
          "uD81B", "uDE4F", "uDE6F", "uD81B", "uDE50", "uDE70", "uD81B",
          "uDE51", "uDE71", "uD81B", "uDE52", "uDE72", "uD81B", "uDE53",
          "uDE73", "uD81B", "uDE54", "uDE74", "uD81B", "uDE55", "uDE75",
          "uD81B", "uDE56", "uDE76", "uD81B", "uDE57", "uDE77", "uD81B",
          "uDE58", "uDE78", "uD81B", "uDE59", "uDE79", "uD81B", "uDE5A",
          "uDE7A", "uD81B", "uDE5B", "uDE7B", "uD81B", "uDE5C", "uDE7C",
          "uD81B", "uDE5D", "uDE7D", "uD81B", "uDE5E", "uDE7E", "uD81B",
          "uDE5F", "uDE7F", "uD81B", "uDEA0", "uDEBB", "uD81B", "uDEA1",
          "uDEBC", "uD81B", "uDEA2", "uDEBD", "uD81B", "uDEA3", "uDEBE",
          "uD81B", "uDEA4", "uDEBF", "uD81B", "uDEA5", "uDEC0", "uD81B",
          "uDEA6", "uDEC1", "uD81B", "uDEA7", "uDEC2", "uD81B", "uDEA8",
          "uDEC3", "uD81B", "uDEA9", "uDEC4", "uD81B", "uDEAA", "uDEC5",
          "uD81B", "uDEAB", "uDEC6", "uD81B", "uDEAC", "uDEC7", "uD81B",
          "uDEAD", "uDEC8", "uD81B", "uDEAE", "uDEC9", "uD81B", "uDEAF",
          "uDECA", "uD81B", "uDEB0", "uDECB", "uD81B", "uDEB1", "uDECC",
          "uD81B", "uDEB2", "uDECD", "uD81B", "uDEB3", "uDECE", "uD81B",
          "uDEB4", "uDECF", "uD81B", "uDEB5", "uDED0", "uD81B", "uDEB6",
          "uDED1", "uD81B", "uDEB7", "uDED2", "uD81B", "uDEB8", "uDED3",
          "uD83A", "uDD00", "uDD22", "uD83A", "uDD01", "uDD23", "uD83A",
          "uDD02", "uDD24", "uD83A", "uDD03", "uDD25", "uD83A", "uDD04",
          "uDD26", "uD83A", "uDD05", "uDD27", "uD83A", "uDD06", "uDD28",
          "uD83A", "uDD07", "uDD29", "uD83A", "uDD08", "uDD2A", "uD83A",
          "uDD09", "uDD2B", "uD83A", "uDD0A", "uDD2C", "uD83A", "uDD0B",
          "uDD2D", "uD83A", "uDD0C", "uDD2E", "uD83A", "uDD0D", "uDD2F",
          "uD83A", "uDD0E", "uDD30", "uD83A", "uDD0F", "uDD31", "uD83A",
          "uDD10", "uDD32", "uD83A", "uDD11", "uDD33", "uD83A", "uDD12",
          "uDD34", "uD83A", "uDD13", "uDD35", "uD83A", "uDD14", "uDD36",
          "uD83A", "uDD15", "uDD37", "uD83A", "uDD16", "uDD38", "uD83A",
          "uDD17", "uDD39", "uD83A", "uDD18", "uDD3A", "uD83A", "uDD19",
          "uDD3B", "uD83A", "uDD1A", "uDD3C", "uD83A", "uDD1B", "uDD3D",
          "uD83A", "uDD1C", "uDD3E", "uD83A", "uDD1D", "uDD3F", "uD83A",
          "uDD1E", "uDD40", "uD83A", "uDD1F", "uDD41", "uD83A", "uDD20",
          "uDD42", "uD83A", "uDD21", "uDD43" >>
      third == Len(triples) \div 3
  IN [cp \in {<<triples[(3 * i) - 2], triples[(3 * i) - 1]>> : i \in 1..third} |->
        <<cp[1], triples[3 * (CHOOSE i \in 1..third :
                                triples[(3 * i) - 2] = cp[1] /\ triples[(3 * i) - 1] = cp[2])]>>]

\* the numbers of the surrogate code units: U+D800..U+DBFF (55296..56319) are
\* the high surrogates, U+DC00..U+DFFF (56320..57343) the low ones
Surrogates ==
  LET chars ==
        <<
          "uD800", "uD801", "uD802", "uD803", "uD804", "uD805", "uD806",
          "uD807", "uD808", "uD809", "uD80A", "uD80B", "uD80C", "uD80D",
          "uD80E", "uD80F", "uD810", "uD811", "uD812", "uD813", "uD814",
          "uD815", "uD816", "uD817", "uD818", "uD819", "uD81A", "uD81B",
          "uD81C", "uD81D", "uD81E", "uD81F", "uD820", "uD821", "uD822",
          "uD823", "uD824", "uD825", "uD826", "uD827", "uD828", "uD829",
          "uD82A", "uD82B", "uD82C", "uD82D", "uD82E", "uD82F", "uD830",
          "uD831", "uD832", "uD833", "uD834", "uD835", "uD836", "uD837",
          "uD838", "uD839", "uD83A", "uD83B", "uD83C", "uD83D", "uD83E",
          "uD83F", "uD840", "uD841", "uD842", "uD843", "uD844", "uD845",
          "uD846", "uD847", "uD848", "uD849", "uD84A", "uD84B", "uD84C",
          "uD84D", "uD84E", "uD84F", "uD850", "uD851", "uD852", "uD853",
          "uD854", "uD855", "uD856", "uD857", "uD858", "uD859", "uD85A",
          "uD85B", "uD85C", "uD85D", "uD85E", "uD85F", "uD860", "uD861",
          "uD862", "uD863", "uD864", "uD865", "uD866", "uD867", "uD868",
          "uD869", "uD86A", "uD86B", "uD86C", "uD86D", "uD86E", "uD86F",
          "uD870", "uD871", "uD872", "uD873", "uD874", "uD875", "uD876",
          "uD877", "uD878", "uD879", "uD87A", "uD87B", "uD87C", "uD87D",
          "uD87E", "uD87F", "uD880", "uD881", "uD882", "uD883", "uD884",
          "uD885", "uD886", "uD887", "uD888", "uD889", "uD88A", "uD88B",
          "uD88C", "uD88D", "uD88E", "uD88F", "uD890", "uD891", "uD892",
          "uD893", "uD894", "uD895", "uD896", "uD897", "uD898", "uD899",
          "uD89A", "uD89B", "uD89C", "uD89D", "uD89E", "uD89F", "uD8A0",
          "uD8A1", "uD8A2", "uD8A3", "uD8A4", "uD8A5", "uD8A6", "uD8A7",
          "uD8A8", "uD8A9", "uD8AA", "uD8AB", "uD8AC", "uD8AD", "uD8AE",
          "uD8AF", "uD8B0", "uD8B1", "uD8B2", "uD8B3", "uD8B4", "uD8B5",
          "uD8B6", "uD8B7", "uD8B8", "uD8B9", "uD8BA", "uD8BB", "uD8BC",
          "uD8BD", "uD8BE", "uD8BF", "uD8C0", "uD8C1", "uD8C2", "uD8C3",
          "uD8C4", "uD8C5", "uD8C6", "uD8C7", "uD8C8", "uD8C9", "uD8CA",
          "uD8CB", "uD8CC", "uD8CD", "uD8CE", "uD8CF", "uD8D0", "uD8D1",
          "uD8D2", "uD8D3", "uD8D4", "uD8D5", "uD8D6", "uD8D7", "uD8D8",
          "uD8D9", "uD8DA", "uD8DB", "uD8DC", "uD8DD", "uD8DE", "uD8DF",
          "uD8E0", "uD8E1", "uD8E2", "uD8E3", "uD8E4", "uD8E5", "uD8E6",
          "uD8E7", "uD8E8", "uD8E9", "uD8EA", "uD8EB", "uD8EC", "uD8ED",
          "uD8EE", "uD8EF", "uD8F0", "uD8F1", "uD8F2", "uD8F3", "uD8F4",
          "uD8F5", "uD8F6", "uD8F7", "uD8F8", "uD8F9", "uD8FA", "uD8FB",
          "uD8FC", "uD8FD", "uD8FE", "uD8FF", "uD900", "uD901", "uD902",
          "uD903", "uD904", "uD905", "uD906", "uD907", "uD908", "uD909",
          "uD90A", "uD90B", "uD90C", "uD90D", "uD90E", "uD90F", "uD910",
          "uD911", "uD912", "uD913", "uD914", "uD915", "uD916", "uD917",
          "uD918", "uD919", "uD91A", "uD91B", "uD91C", "uD91D", "uD91E",
          "uD91F", "uD920", "uD921", "uD922", "uD923", "uD924", "uD925",
          "uD926", "uD927", "uD928", "uD929", "uD92A", "uD92B", "uD92C",
          "uD92D", "uD92E", "uD92F", "uD930", "uD931", "uD932", "uD933",
          "uD934", "uD935", "uD936", "uD937", "uD938", "uD939", "uD93A",
          "uD93B", "uD93C", "uD93D", "uD93E", "uD93F", "uD940", "uD941",
          "uD942", "uD943", "uD944", "uD945", "uD946", "uD947", "uD948",
          "uD949", "uD94A", "uD94B", "uD94C", "uD94D", "uD94E", "uD94F",
          "uD950", "uD951", "uD952", "uD953", "uD954", "uD955", "uD956",
          "uD957", "uD958", "uD959", "uD95A", "uD95B", "uD95C", "uD95D",
          "uD95E", "uD95F", "uD960", "uD961", "uD962", "uD963", "uD964",
          "uD965", "uD966", "uD967", "uD968", "uD969", "uD96A", "uD96B",
          "uD96C", "uD96D", "uD96E", "uD96F", "uD970", "uD971", "uD972",
          "uD973", "uD974", "uD975", "uD976", "uD977", "uD978", "uD979",
          "uD97A", "uD97B", "uD97C", "uD97D", "uD97E", "uD97F", "uD980",
          "uD981", "uD982", "uD983", "uD984", "uD985", "uD986", "uD987",
          "uD988", "uD989", "uD98A", "uD98B", "uD98C", "uD98D", "uD98E",
          "uD98F", "uD990", "uD991", "uD992", "uD993", "uD994", "uD995",
          "uD996", "uD997", "uD998", "uD999", "uD99A", "uD99B", "uD99C",
          "uD99D", "uD99E", "uD99F", "uD9A0", "uD9A1", "uD9A2", "uD9A3",
          "uD9A4", "uD9A5", "uD9A6", "uD9A7", "uD9A8", "uD9A9", "uD9AA",
          "uD9AB", "uD9AC", "uD9AD", "uD9AE", "uD9AF", "uD9B0", "uD9B1",
          "uD9B2", "uD9B3", "uD9B4", "uD9B5", "uD9B6", "uD9B7", "uD9B8",
          "uD9B9", "uD9BA", "uD9BB", "uD9BC", "uD9BD", "uD9BE", "uD9BF",
          "uD9C0", "uD9C1", "uD9C2", "uD9C3", "uD9C4", "uD9C5", "uD9C6",
          "uD9C7", "uD9C8", "uD9C9", "uD9CA", "uD9CB", "uD9CC", "uD9CD",
          "uD9CE", "uD9CF", "uD9D0", "uD9D1", "uD9D2", "uD9D3", "uD9D4",
          "uD9D5", "uD9D6", "uD9D7", "uD9D8", "uD9D9", "uD9DA", "uD9DB",
          "uD9DC", "uD9DD", "uD9DE", "uD9DF", "uD9E0", "uD9E1", "uD9E2",
          "uD9E3", "uD9E4", "uD9E5", "uD9E6", "uD9E7", "uD9E8", "uD9E9",
          "uD9EA", "uD9EB", "uD9EC", "uD9ED", "uD9EE", "uD9EF", "uD9F0",
          "uD9F1", "uD9F2", "uD9F3", "uD9F4", "uD9F5", "uD9F6", "uD9F7",
          "uD9F8", "uD9F9", "uD9FA", "uD9FB", "uD9FC", "uD9FD", "uD9FE",
          "uD9FF", "uDA00", "uDA01", "uDA02", "uDA03", "uDA04", "uDA05",
          "uDA06", "uDA07", "uDA08", "uDA09", "uDA0A", "uDA0B", "uDA0C",
          "uDA0D", "uDA0E", "uDA0F", "uDA10", "uDA11", "uDA12", "uDA13",
          "uDA14", "uDA15", "uDA16", "uDA17", "uDA18", "uDA19", "uDA1A",
          "uDA1B", "uDA1C", "uDA1D", "uDA1E", "uDA1F", "uDA20", "uDA21",
          "uDA22", "uDA23", "uDA24", "uDA25", "uDA26", "uDA27", "uDA28",
          "uDA29", "uDA2A", "uDA2B", "uDA2C", "uDA2D", "uDA2E", "uDA2F",
          "uDA30", "uDA31", "uDA32", "uDA33", "uDA34", "uDA35", "uDA36",
          "uDA37", "uDA38", "uDA39", "uDA3A", "uDA3B", "uDA3C", "uDA3D",
          "uDA3E", "uDA3F", "uDA40", "uDA41", "uDA42", "uDA43", "uDA44",
          "uDA45", "uDA46", "uDA47", "uDA48", "uDA49", "uDA4A", "uDA4B",
          "uDA4C", "uDA4D", "uDA4E", "uDA4F", "uDA50", "uDA51", "uDA52",
          "uDA53", "uDA54", "uDA55", "uDA56", "uDA57", "uDA58", "uDA59",
          "uDA5A", "uDA5B", "uDA5C", "uDA5D", "uDA5E", "uDA5F", "uDA60",
          "uDA61", "uDA62", "uDA63", "uDA64", "uDA65", "uDA66", "uDA67",
          "uDA68", "uDA69", "uDA6A", "uDA6B", "uDA6C", "uDA6D", "uDA6E",
          "uDA6F", "uDA70", "uDA71", "uDA72", "uDA73", "uDA74", "uDA75",
          "uDA76", "uDA77", "uDA78", "uDA79", "uDA7A", "uDA7B", "uDA7C",
          "uDA7D", "uDA7E", "uDA7F", "uDA80", "uDA81", "uDA82", "uDA83",
          "uDA84", "uDA85", "uDA86", "uDA87", "uDA88", "uDA89", "uDA8A",
          "uDA8B", "uDA8C", "uDA8D", "uDA8E", "uDA8F", "uDA90", "uDA91",
          "uDA92", "uDA93", "uDA94", "uDA95", "uDA96", "uDA97", "uDA98",
          "uDA99", "uDA9A", "uDA9B", "uDA9C", "uDA9D", "uDA9E", "uDA9F",
          "uDAA0", "uDAA1", "uDAA2", "uDAA3", "uDAA4", "uDAA5", "uDAA6",
          "uDAA7", "uDAA8", "uDAA9", "uDAAA", "uDAAB", "uDAAC", "uDAAD",
          "uDAAE", "uDAAF", "uDAB0", "uDAB1", "uDAB2", "uDAB3", "uDAB4",
          "uDAB5", "uDAB6", "uDAB7", "uDAB8", "uDAB9", "uDABA", "uDABB",
          "uDABC", "uDABD", "uDABE", "uDABF", "uDAC0", "uDAC1", "uDAC2",
          "uDAC3", "uDAC4", "uDAC5", "uDAC6", "uDAC7", "uDAC8", "uDAC9",
          "uDACA", "uDACB", "uDACC", "uDACD", "uDACE", "uDACF", "uDAD0",
          "uDAD1", "uDAD2", "uDAD3", "uDAD4", "uDAD5", "uDAD6", "uDAD7",
          "uDAD8", "uDAD9", "uDADA", "uDADB", "uDADC", "uDADD", "uDADE",
          "uDADF", "uDAE0", "uDAE1", "uDAE2", "uDAE3", "uDAE4", "uDAE5",
          "uDAE6", "uDAE7", "uDAE8", "uDAE9", "uDAEA", "uDAEB", "uDAEC",
          "uDAED", "uDAEE", "uDAEF", "uDAF0", "uDAF1", "uDAF2", "uDAF3",
          "uDAF4", "uDAF5", "uDAF6", "uDAF7", "uDAF8", "uDAF9", "uDAFA",
          "uDAFB", "uDAFC", "uDAFD", "uDAFE", "uDAFF", "uDB00", "uDB01",
          "uDB02", "uDB03", "uDB04", "uDB05", "uDB06", "uDB07", "uDB08",
          "uDB09", "uDB0A", "uDB0B", "uDB0C", "uDB0D", "uDB0E", "uDB0F",
          "uDB10", "uDB11", "uDB12", "uDB13", "uDB14", "uDB15", "uDB16",
          "uDB17", "uDB18", "uDB19", "uDB1A", "uDB1B", "uDB1C", "uDB1D",
          "uDB1E", "uDB1F", "uDB20", "uDB21", "uDB22", "uDB23", "uDB24",
          "uDB25", "uDB26", "uDB27", "uDB28", "uDB29", "uDB2A", "uDB2B",
          "uDB2C", "uDB2D", "uDB2E", "uDB2F", "uDB30", "uDB31", "uDB32",
          "uDB33", "uDB34", "uDB35", "uDB36", "uDB37", "uDB38", "uDB39",
          "uDB3A", "uDB3B", "uDB3C", "uDB3D", "uDB3E", "uDB3F", "uDB40",
          "uDB41", "uDB42", "uDB43", "uDB44", "uDB45", "uDB46", "uDB47",
          "uDB48", "uDB49", "uDB4A", "uDB4B", "uDB4C", "uDB4D", "uDB4E",
          "uDB4F", "uDB50", "uDB51", "uDB52", "uDB53", "uDB54", "uDB55",
          "uDB56", "uDB57", "uDB58", "uDB59", "uDB5A", "uDB5B", "uDB5C",
          "uDB5D", "uDB5E", "uDB5F", "uDB60", "uDB61", "uDB62", "uDB63",
          "uDB64", "uDB65", "uDB66", "uDB67", "uDB68", "uDB69", "uDB6A",
          "uDB6B", "uDB6C", "uDB6D", "uDB6E", "uDB6F", "uDB70", "uDB71",
          "uDB72", "uDB73", "uDB74", "uDB75", "uDB76", "uDB77", "uDB78",
          "uDB79", "uDB7A", "uDB7B", "uDB7C", "uDB7D", "uDB7E", "uDB7F",
          "uDB80", "uDB81", "uDB82", "uDB83", "uDB84", "uDB85", "uDB86",
          "uDB87", "uDB88", "uDB89", "uDB8A", "uDB8B", "uDB8C", "uDB8D",
          "uDB8E", "uDB8F", "uDB90", "uDB91", "uDB92", "uDB93", "uDB94",
          "uDB95", "uDB96", "uDB97", "uDB98", "uDB99", "uDB9A", "uDB9B",
          "uDB9C", "uDB9D", "uDB9E", "uDB9F", "uDBA0", "uDBA1", "uDBA2",
          "uDBA3", "uDBA4", "uDBA5", "uDBA6", "uDBA7", "uDBA8", "uDBA9",
          "uDBAA", "uDBAB", "uDBAC", "uDBAD", "uDBAE", "uDBAF", "uDBB0",
          "uDBB1", "uDBB2", "uDBB3", "uDBB4", "uDBB5", "uDBB6", "uDBB7",
          "uDBB8", "uDBB9", "uDBBA", "uDBBB", "uDBBC", "uDBBD", "uDBBE",
          "uDBBF", "uDBC0", "uDBC1", "uDBC2", "uDBC3", "uDBC4", "uDBC5",
          "uDBC6", "uDBC7", "uDBC8", "uDBC9", "uDBCA", "uDBCB", "uDBCC",
          "uDBCD", "uDBCE", "uDBCF", "uDBD0", "uDBD1", "uDBD2", "uDBD3",
          "uDBD4", "uDBD5", "uDBD6", "uDBD7", "uDBD8", "uDBD9", "uDBDA",
          "uDBDB", "uDBDC", "uDBDD", "uDBDE", "uDBDF", "uDBE0", "uDBE1",
          "uDBE2", "uDBE3", "uDBE4", "uDBE5", "uDBE6", "uDBE7", "uDBE8",
          "uDBE9", "uDBEA", "uDBEB", "uDBEC", "uDBED", "uDBEE", "uDBEF",
          "uDBF0", "uDBF1", "uDBF2", "uDBF3", "uDBF4", "uDBF5", "uDBF6",
          "uDBF7", "uDBF8", "uDBF9", "uDBFA", "uDBFB", "uDBFC", "uDBFD",
          "uDBFE", "uDBFF", "uDC00", "uDC01", "uDC02", "uDC03", "uDC04",
          "uDC05", "uDC06", "uDC07", "uDC08", "uDC09", "uDC0A", "uDC0B",
          "uDC0C", "uDC0D", "uDC0E", "uDC0F", "uDC10", "uDC11", "uDC12",
          "uDC13", "uDC14", "uDC15", "uDC16", "uDC17", "uDC18", "uDC19",
          "uDC1A", "uDC1B", "uDC1C", "uDC1D", "uDC1E", "uDC1F", "uDC20",
          "uDC21", "uDC22", "uDC23", "uDC24", "uDC25", "uDC26", "uDC27",
          "uDC28", "uDC29", "uDC2A", "uDC2B", "uDC2C", "uDC2D", "uDC2E",
          "uDC2F", "uDC30", "uDC31", "uDC32", "uDC33", "uDC34", "uDC35",
          "uDC36", "uDC37", "uDC38", "uDC39", "uDC3A", "uDC3B", "uDC3C",
          "uDC3D", "uDC3E", "uDC3F", "uDC40", "uDC41", "uDC42", "uDC43",
          "uDC44", "uDC45", "uDC46", "uDC47", "uDC48", "uDC49", "uDC4A",
          "uDC4B", "uDC4C", "uDC4D", "uDC4E", "uDC4F", "uDC50", "uDC51",
          "uDC52", "uDC53", "uDC54", "uDC55", "uDC56", "uDC57", "uDC58",
          "uDC59", "uDC5A", "uDC5B", "uDC5C", "uDC5D", "uDC5E", "uDC5F",
          "uDC60", "uDC61", "uDC62", "uDC63", "uDC64", "uDC65", "uDC66",
          "uDC67", "uDC68", "uDC69", "uDC6A", "uDC6B", "uDC6C", "uDC6D",
          "uDC6E", "uDC6F", "uDC70", "uDC71", "uDC72", "uDC73", "uDC74",
          "uDC75", "uDC76", "uDC77", "uDC78", "uDC79", "uDC7A", "uDC7B",
          "uDC7C", "uDC7D", "uDC7E", "uDC7F", "uDC80", "uDC81", "uDC82",
          "uDC83", "uDC84", "uDC85", "uDC86", "uDC87", "uDC88", "uDC89",
          "uDC8A", "uDC8B", "uDC8C", "uDC8D", "uDC8E", "uDC8F", "uDC90",
          "uDC91", "uDC92", "uDC93", "uDC94", "uDC95", "uDC96", "uDC97",
          "uDC98", "uDC99", "uDC9A", "uDC9B", "uDC9C", "uDC9D", "uDC9E",
          "uDC9F", "uDCA0", "uDCA1", "uDCA2", "uDCA3", "uDCA4", "uDCA5",
          "uDCA6", "uDCA7", "uDCA8", "uDCA9", "uDCAA", "uDCAB", "uDCAC",
          "uDCAD", "uDCAE", "uDCAF", "uDCB0", "uDCB1", "uDCB2", "uDCB3",
          "uDCB4", "uDCB5", "uDCB6", "uDCB7", "uDCB8", "uDCB9", "uDCBA",
          "uDCBB", "uDCBC", "uDCBD", "uDCBE", "uDCBF", "uDCC0", "uDCC1",
          "uDCC2", "uDCC3", "uDCC4", "uDCC5", "uDCC6", "uDCC7", "uDCC8",
          "uDCC9", "uDCCA", "uDCCB", "uDCCC", "uDCCD", "uDCCE", "uDCCF",
          "uDCD0", "uDCD1", "uDCD2", "uDCD3", "uDCD4", "uDCD5", "uDCD6",
          "uDCD7", "uDCD8", "uDCD9", "uDCDA", "uDCDB", "uDCDC", "uDCDD",
          "uDCDE", "uDCDF", "uDCE0", "uDCE1", "uDCE2", "uDCE3", "uDCE4",
          "uDCE5", "uDCE6", "uDCE7", "uDCE8", "uDCE9", "uDCEA", "uDCEB",
          "uDCEC", "uDCED", "uDCEE", "uDCEF", "uDCF0", "uDCF1", "uDCF2",
          "uDCF3", "uDCF4", "uDCF5", "uDCF6", "uDCF7", "uDCF8", "uDCF9",
          "uDCFA", "uDCFB", "uDCFC", "uDCFD", "uDCFE", "uDCFF", "uDD00",
          "uDD01", "uDD02", "uDD03", "uDD04", "uDD05", "uDD06", "uDD07",
          "uDD08", "uDD09", "uDD0A", "uDD0B", "uDD0C", "uDD0D", "uDD0E",
          "uDD0F", "uDD10", "uDD11", "uDD12", "uDD13", "uDD14", "uDD15",
          "uDD16", "uDD17", "uDD18", "uDD19", "uDD1A", "uDD1B", "uDD1C",
          "uDD1D", "uDD1E", "uDD1F", "uDD20", "uDD21", "uDD22", "uDD23",
          "uDD24", "uDD25", "uDD26", "uDD27", "uDD28", "uDD29", "uDD2A",
          "uDD2B", "uDD2C", "uDD2D", "uDD2E", "uDD2F", "uDD30", "uDD31",
          "uDD32", "uDD33", "uDD34", "uDD35", "uDD36", "uDD37", "uDD38",
          "uDD39", "uDD3A", "uDD3B", "uDD3C", "uDD3D", "uDD3E", "uDD3F",
          "uDD40", "uDD41", "uDD42", "uDD43", "uDD44", "uDD45", "uDD46",
          "uDD47", "uDD48", "uDD49", "uDD4A", "uDD4B", "uDD4C", "uDD4D",
          "uDD4E", "uDD4F", "uDD50", "uDD51", "uDD52", "uDD53", "uDD54",
          "uDD55", "uDD56", "uDD57", "uDD58", "uDD59", "uDD5A", "uDD5B",
          "uDD5C", "uDD5D", "uDD5E", "uDD5F", "uDD60", "uDD61", "uDD62",
          "uDD63", "uDD64", "uDD65", "uDD66", "uDD67", "uDD68", "uDD69",
          "uDD6A", "uDD6B", "uDD6C", "uDD6D", "uDD6E", "uDD6F", "uDD70",
          "uDD71", "uDD72", "uDD73", "uDD74", "uDD75", "uDD76", "uDD77",
          "uDD78", "uDD79", "uDD7A", "uDD7B", "uDD7C", "uDD7D", "uDD7E",
          "uDD7F", "uDD80", "uDD81", "uDD82", "uDD83", "uDD84", "uDD85",
          "uDD86", "uDD87", "uDD88", "uDD89", "uDD8A", "uDD8B", "uDD8C",
          "uDD8D", "uDD8E", "uDD8F", "uDD90", "uDD91", "uDD92", "uDD93",
          "uDD94", "uDD95", "uDD96", "uDD97", "uDD98", "uDD99", "uDD9A",
          "uDD9B", "uDD9C", "uDD9D", "uDD9E", "uDD9F", "uDDA0", "uDDA1",
          "uDDA2", "uDDA3", "uDDA4", "uDDA5", "uDDA6", "uDDA7", "uDDA8",
          "uDDA9", "uDDAA", "uDDAB", "uDDAC", "uDDAD", "uDDAE", "uDDAF",
          "uDDB0", "uDDB1", "uDDB2", "uDDB3", "uDDB4", "uDDB5", "uDDB6",
          "uDDB7", "uDDB8", "uDDB9", "uDDBA", "uDDBB", "uDDBC", "uDDBD",
          "uDDBE", "uDDBF", "uDDC0", "uDDC1", "uDDC2", "uDDC3", "uDDC4",
          "uDDC5", "uDDC6", "uDDC7", "uDDC8", "uDDC9", "uDDCA", "uDDCB",
          "uDDCC", "uDDCD", "uDDCE", "uDDCF", "uDDD0", "uDDD1", "uDDD2",
          "uDDD3", "uDDD4", "uDDD5", "uDDD6", "uDDD7", "uDDD8", "uDDD9",
          "uDDDA", "uDDDB", "uDDDC", "uDDDD", "uDDDE", "uDDDF", "uDDE0",
          "uDDE1", "uDDE2", "uDDE3", "uDDE4", "uDDE5", "uDDE6", "uDDE7",
          "uDDE8", "uDDE9", "uDDEA", "uDDEB", "uDDEC", "uDDED", "uDDEE",
          "uDDEF", "uDDF0", "uDDF1", "uDDF2", "uDDF3", "uDDF4", "uDDF5",
          "uDDF6", "uDDF7", "uDDF8", "uDDF9", "uDDFA", "uDDFB", "uDDFC",
          "uDDFD", "uDDFE", "uDDFF", "uDE00", "uDE01", "uDE02", "uDE03",
          "uDE04", "uDE05", "uDE06", "uDE07", "uDE08", "uDE09", "uDE0A",
          "uDE0B", "uDE0C", "uDE0D", "uDE0E", "uDE0F", "uDE10", "uDE11",
          "uDE12", "uDE13", "uDE14", "uDE15", "uDE16", "uDE17", "uDE18",
          "uDE19", "uDE1A", "uDE1B", "uDE1C", "uDE1D", "uDE1E", "uDE1F",
          "uDE20", "uDE21", "uDE22", "uDE23", "uDE24", "uDE25", "uDE26",
          "uDE27", "uDE28", "uDE29", "uDE2A", "uDE2B", "uDE2C", "uDE2D",
          "uDE2E", "uDE2F", "uDE30", "uDE31", "uDE32", "uDE33", "uDE34",
          "uDE35", "uDE36", "uDE37", "uDE38", "uDE39", "uDE3A", "uDE3B",
          "uDE3C", "uDE3D", "uDE3E", "uDE3F", "uDE40", "uDE41", "uDE42",
          "uDE43", "uDE44", "uDE45", "uDE46", "uDE47", "uDE48", "uDE49",
          "uDE4A", "uDE4B", "uDE4C", "uDE4D", "uDE4E", "uDE4F", "uDE50",
          "uDE51", "uDE52", "uDE53", "uDE54", "uDE55", "uDE56", "uDE57",
          "uDE58", "uDE59", "uDE5A", "uDE5B", "uDE5C", "uDE5D", "uDE5E",
          "uDE5F", "uDE60", "uDE61", "uDE62", "uDE63", "uDE64", "uDE65",
          "uDE66", "uDE67", "uDE68", "uDE69", "uDE6A", "uDE6B", "uDE6C",
          "uDE6D", "uDE6E", "uDE6F", "uDE70", "uDE71", "uDE72", "uDE73",
          "uDE74", "uDE75", "uDE76", "uDE77", "uDE78", "uDE79", "uDE7A",
          "uDE7B", "uDE7C", "uDE7D", "uDE7E", "uDE7F", "uDE80", "uDE81",
          "uDE82", "uDE83", "uDE84", "uDE85", "uDE86", "uDE87", "uDE88",
          "uDE89", "uDE8A", "uDE8B", "uDE8C", "uDE8D", "uDE8E", "uDE8F",
          "uDE90", "uDE91", "uDE92", "uDE93", "uDE94", "uDE95", "uDE96",
          "uDE97", "uDE98", "uDE99", "uDE9A", "uDE9B", "uDE9C", "uDE9D",
          "uDE9E", "uDE9F", "uDEA0", "uDEA1", "uDEA2", "uDEA3", "uDEA4",
          "uDEA5", "uDEA6", "uDEA7", "uDEA8", "uDEA9", "uDEAA", "uDEAB",
          "uDEAC", "uDEAD", "uDEAE", "uDEAF", "uDEB0", "uDEB1", "uDEB2",
          "uDEB3", "uDEB4", "uDEB5", "uDEB6", "uDEB7", "uDEB8", "uDEB9",
          "uDEBA", "uDEBB", "uDEBC", "uDEBD", "uDEBE", "uDEBF", "uDEC0",
          "uDEC1", "uDEC2", "uDEC3", "uDEC4", "uDEC5", "uDEC6", "uDEC7",
          "uDEC8", "uDEC9", "uDECA", "uDECB", "uDECC", "uDECD", "uDECE",
          "uDECF", "uDED0", "uDED1", "uDED2", "uDED3", "uDED4", "uDED5",
          "uDED6", "uDED7", "uDED8", "uDED9", "uDEDA", "uDEDB", "uDEDC",
          "uDEDD", "uDEDE", "uDEDF", "uDEE0", "uDEE1", "uDEE2", "uDEE3",
          "uDEE4", "uDEE5", "uDEE6", "uDEE7", "uDEE8", "uDEE9", "uDEEA",
          "uDEEB", "uDEEC", "uDEED", "uDEEE", "uDEEF", "uDEF0", "uDEF1",
          "uDEF2", "uDEF3", "uDEF4", "uDEF5", "uDEF6", "uDEF7", "uDEF8",
          "uDEF9", "uDEFA", "uDEFB", "uDEFC", "uDEFD", "uDEFE", "uDEFF",
          "uDF00", "uDF01", "uDF02", "uDF03", "uDF04", "uDF05", "uDF06",
          "uDF07", "uDF08", "uDF09", "uDF0A", "uDF0B", "uDF0C", "uDF0D",
          "uDF0E", "uDF0F", "uDF10", "uDF11", "uDF12", "uDF13", "uDF14",
          "uDF15", "uDF16", "uDF17", "uDF18", "uDF19", "uDF1A", "uDF1B",
          "uDF1C", "uDF1D", "uDF1E", "uDF1F", "uDF20", "uDF21", "uDF22",
          "uDF23", "uDF24", "uDF25", "uDF26", "uDF27", "uDF28", "uDF29",
          "uDF2A", "uDF2B", "uDF2C", "uDF2D", "uDF2E", "uDF2F", "uDF30",
          "uDF31", "uDF32", "uDF33", "uDF34", "uDF35", "uDF36", "uDF37",
          "uDF38", "uDF39", "uDF3A", "uDF3B", "uDF3C", "uDF3D", "uDF3E",
          "uDF3F", "uDF40", "uDF41", "uDF42", "uDF43", "uDF44", "uDF45",
          "uDF46", "uDF47", "uDF48", "uDF49", "uDF4A", "uDF4B", "uDF4C",
          "uDF4D", "uDF4E", "uDF4F", "uDF50", "uDF51", "uDF52", "uDF53",
          "uDF54", "uDF55", "uDF56", "uDF57", "uDF58", "uDF59", "uDF5A",
          "uDF5B", "uDF5C", "uDF5D", "uDF5E", "uDF5F", "uDF60", "uDF61",
          "uDF62", "uDF63", "uDF64", "uDF65", "uDF66", "uDF67", "uDF68",
          "uDF69", "uDF6A", "uDF6B", "uDF6C", "uDF6D", "uDF6E", "uDF6F",
          "uDF70", "uDF71", "uDF72", "uDF73", "uDF74", "uDF75", "uDF76",
          "uDF77", "uDF78", "uDF79", "uDF7A", "uDF7B", "uDF7C", "uDF7D",
          "uDF7E", "uDF7F", "uDF80", "uDF81", "uDF82", "uDF83", "uDF84",
          "uDF85", "uDF86", "uDF87", "uDF88", "uDF89", "uDF8A", "uDF8B",
          "uDF8C", "uDF8D", "uDF8E", "uDF8F", "uDF90", "uDF91", "uDF92",
          "uDF93", "uDF94", "uDF95", "uDF96", "uDF97", "uDF98", "uDF99",
          "uDF9A", "uDF9B", "uDF9C", "uDF9D", "uDF9E", "uDF9F", "uDFA0",
          "uDFA1", "uDFA2", "uDFA3", "uDFA4", "uDFA5", "uDFA6", "uDFA7",
          "uDFA8", "uDFA9", "uDFAA", "uDFAB", "uDFAC", "uDFAD", "uDFAE",
          "uDFAF", "uDFB0", "uDFB1", "uDFB2", "uDFB3", "uDFB4", "uDFB5",
          "uDFB6", "uDFB7", "uDFB8", "uDFB9", "uDFBA", "uDFBB", "uDFBC",
          "uDFBD", "uDFBE", "uDFBF", "uDFC0", "uDFC1", "uDFC2", "uDFC3",
          "uDFC4", "uDFC5", "uDFC6", "uDFC7", "uDFC8", "uDFC9", "uDFCA",
          "uDFCB", "uDFCC", "uDFCD", "uDFCE", "uDFCF", "uDFD0", "uDFD1",
          "uDFD2", "uDFD3", "uDFD4", "uDFD5", "uDFD6", "uDFD7", "uDFD8",
          "uDFD9", "uDFDA", "uDFDB", "uDFDC", "uDFDD", "uDFDE", "uDFDF",
          "uDFE0", "uDFE1", "uDFE2", "uDFE3", "uDFE4", "uDFE5", "uDFE6",
          "uDFE7", "uDFE8", "uDFE9", "uDFEA", "uDFEB", "uDFEC", "uDFED",
          "uDFEE", "uDFEF", "uDFF0", "uDFF1", "uDFF2", "uDFF3", "uDFF4",
          "uDFF5", "uDFF6", "uDFF7", "uDFF8", "uDFF9", "uDFFA", "uDFFB",
          "uDFFC", "uDFFD", "uDFFE", "uDFFF" >>
  IN [c \in Range(chars) |-> 55295 + (CHOOSE i \in DOMAIN chars : chars[i] = c)]

\* the code points of a string, each the sequence of its code units: two for
\* a high surrogate followed by a low surrogate, one otherwise
CodePoints(s) ==
  LET NonEmpty(cp) == cp # <<>>
      \* ends[i]: the code unit at position i is the low surrogate of a pair
      Split(ends) ==
        SelectSeq([i \in DOMAIN s |->
                     IF ends[i] THEN <<>>
                     ELSE IF i < Len(s) /\ ends[i + 1] THEN <<s[i], s[i + 1]>>
                     ELSE <<s[i]>>],
                  NonEmpty)
      Pairs(kind) ==
        Split([i \in DOMAIN s |-> i > 1 /\ kind[i] = "low" /\ kind[i - 1] = "high"])
  IN Pairs([i \in DOMAIN s |->
              IF s[i] \notin DOMAIN Surrogates THEN "none"
              ELSE IF Surrogates[s[i]] < 56320 THEN "high" ELSE "low"])

\* The code points with the Case_Ignorable property of Unicode: bmp holds
\* those of one code unit, astral lists the two code units of each of the others.
CaseIgnorable ==
  LET bmp ==
        {
          "'", ".", ":", "^", "u0060", "u00A8", "u00AD", "u00AF", "u00B4",
          "u00B7", "u00B8", "u02B0", "u02B1", "u02B2", "u02B3", "u02B4",
          "u02B5", "u02B6", "u02B7", "u02B8", "u02B9", "u02BA", "u02BB",
          "u02BC", "u02BD", "u02BE", "u02BF", "u02C0", "u02C1", "u02C2",
          "u02C3", "u02C4", "u02C5", "u02C6", "u02C7", "u02C8", "u02C9",
          "u02CA", "u02CB", "u02CC", "u02CD", "u02CE", "u02CF", "u02D0",
          "u02D1", "u02D2", "u02D3", "u02D4", "u02D5", "u02D6", "u02D7",
          "u02D8", "u02D9", "u02DA", "u02DB", "u02DC", "u02DD", "u02DE",
          "u02DF", "u02E0", "u02E1", "u02E2", "u02E3", "u02E4", "u02E5",
          "u02E6", "u02E7", "u02E8", "u02E9", "u02EA", "u02EB", "u02EC",
          "u02ED", "u02EE", "u02EF", "u02F0", "u02F1", "u02F2", "u02F3",
          "u02F4", "u02F5", "u02F6", "u02F7", "u02F8", "u02F9", "u02FA",
          "u02FB", "u02FC", "u02FD", "u02FE", "u02FF", "u0300", "u0301",
          "u0302", "u0303", "u0304", "u0305", "u0306", "u0307", "u0308",
          "u0309", "u030A", "u030B", "u030C", "u030D", "u030E", "u030F",
          "u0310", "u0311", "u0312", "u0313", "u0314", "u0315", "u0316",
          "u0317", "u0318", "u0319", "u031A", "u031B", "u031C", "u031D",
          "u031E", "u031F", "u0320", "u0321", "u0322", "u0323", "u0324",
          "u0325", "u0326", "u0327", "u0328", "u0329", "u032A", "u032B",
          "u032C", "u032D", "u032E", "u032F", "u0330", "u0331", "u0332",
          "u0333", "u0334", "u0335", "u0336", "u0337", "u0338", "u0339",
          "u033A", "u033B", "u033C", "u033D", "u033E", "u033F", "u0340",
          "u0341", "u0342", "u0343", "u0344", "u0345", "u0346", "u0347",
          "u0348", "u0349", "u034A", "u034B", "u034C", "u034D", "u034E",
          "u034F", "u0350", "u0351", "u0352", "u0353", "u0354", "u0355",
          "u0356", "u0357", "u0358", "u0359", "u035A", "u035B", "u035C",
          "u035D", "u035E", "u035F", "u0360", "u0361", "u0362", "u0363",
          "u0364", "u0365", "u0366", "u0367", "u0368", "u0369", "u036A",
          "u036B", "u036C", "u036D", "u036E", "u036F", "u0374", "u0375",
          "u037A", "u0384", "u0385", "u0387", "u0483", "u0484", "u0485",
          "u0486", "u0487", "u0488", "u0489", "u0559", "u055F", "u0591",
          "u0592", "u0593", "u0594", "u0595", "u0596", "u0597", "u0598",
          "u0599", "u059A", "u059B", "u059C", "u059D", "u059E", "u059F",
          "u05A0", "u05A1", "u05A2", "u05A3", "u05A4", "u05A5", "u05A6",
          "u05A7", "u05A8", "u05A9", "u05AA", "u05AB", "u05AC", "u05AD",
          "u05AE", "u05AF", "u05B0", "u05B1", "u05B2", "u05B3", "u05B4",
          "u05B5", "u05B6", "u05B7", "u05B8", "u05B9", "u05BA", "u05BB",
          "u05BC", "u05BD", "u05BF", "u05C1", "u05C2", "u05C4", "u05C5",
          "u05C7", "u05F4", "u0600", "u0601", "u0602", "u0603", "u0604",
          "u0605", "u0610", "u0611", "u0612", "u0613", "u0614", "u0615",
          "u0616", "u0617", "u0618", "u0619", "u061A", "u061C", "u0640",
          "u064B", "u064C", "u064D", "u064E", "u064F", "u0650", "u0651",
          "u0652", "u0653", "u0654", "u0655", "u0656", "u0657", "u0658",
          "u0659", "u065A", "u065B", "u065C", "u065D", "u065E", "u065F",
          "u0670", "u06D6", "u06D7", "u06D8", "u06D9", "u06DA", "u06DB",
          "u06DC", "u06DD", "u06DF", "u06E0", "u06E1", "u06E2", "u06E3",
          "u06E4", "u06E5", "u06E6", "u06E7", "u06E8", "u06EA", "u06EB",
          "u06EC", "u06ED", "u070F", "u0711", "u0730", "u0731", "u0732",
          "u0733", "u0734", "u0735", "u0736", "u0737", "u0738", "u0739",
          "u073A", "u073B", "u073C", "u073D", "u073E", "u073F", "u0740",
          "u0741", "u0742", "u0743", "u0744", "u0745", "u0746", "u0747",
          "u0748", "u0749", "u074A", "u07A6", "u07A7", "u07A8", "u07A9",
          "u07AA", "u07AB", "u07AC", "u07AD", "u07AE", "u07AF", "u07B0",
          "u07EB", "u07EC", "u07ED", "u07EE", "u07EF", "u07F0", "u07F1",
          "u07F2", "u07F3", "u07F4", "u07F5", "u07FA", "u07FD", "u0816",
          "u0817", "u0818", "u0819", "u081A", "u081B", "u081C", "u081D",
          "u081E", "u081F", "u0820", "u0821", "u0822", "u0823", "u0824",
          "u0825", "u0826", "u0827", "u0828", "u0829", "u082A", "u082B",
          "u082C", "u082D", "u0859", "u085A", "u085B", "u0888", "u0890",
          "u0891", "u0897", "u0898", "u0899", "u089A", "u089B", "u089C",
          "u089D", "u089E", "u089F", "u08C9", "u08CA", "u08CB", "u08CC",
          "u08CD", "u08CE", "u08CF", "u08D0", "u08D1", "u08D2", "u08D3",
          "u08D4", "u08D5", "u08D6", "u08D7", "u08D8", "u08D9", "u08DA",
          "u08DB", "u08DC", "u08DD", "u08DE", "u08DF", "u08E0", "u08E1",
          "u08E2", "u08E3", "u08E4", "u08E5", "u08E6", "u08E7", "u08E8",
          "u08E9", "u08EA", "u08EB", "u08EC", "u08ED", "u08EE", "u08EF",
          "u08F0", "u08F1", "u08F2", "u08F3", "u08F4", "u08F5", "u08F6",
          "u08F7", "u08F8", "u08F9", "u08FA", "u08FB", "u08FC", "u08FD",
          "u08FE", "u08FF", "u0900", "u0901", "u0902", "u093A", "u093C",
          "u0941", "u0942", "u0943", "u0944", "u0945", "u0946", "u0947",
          "u0948", "u094D", "u0951", "u0952", "u0953", "u0954", "u0955",
          "u0956", "u0957", "u0962", "u0963", "u0971", "u0981", "u09BC",
          "u09C1", "u09C2", "u09C3", "u09C4", "u09CD", "u09E2", "u09E3",
          "u09FE", "u0A01", "u0A02", "u0A3C", "u0A41", "u0A42", "u0A47",
          "u0A48", "u0A4B", "u0A4C", "u0A4D", "u0A51", "u0A70", "u0A71",
          "u0A75", "u0A81", "u0A82", "u0ABC", "u0AC1", "u0AC2", "u0AC3",
          "u0AC4", "u0AC5", "u0AC7", "u0AC8", "u0ACD", "u0AE2", "u0AE3",
          "u0AFA", "u0AFB", "u0AFC", "u0AFD", "u0AFE", "u0AFF", "u0B01",
          "u0B3C", "u0B3F", "u0B41", "u0B42", "u0B43", "u0B44", "u0B4D",
          "u0B55", "u0B56", "u0B62", "u0B63", "u0B82", "u0BC0", "u0BCD",
          "u0C00", "u0C04", "u0C3C", "u0C3E", "u0C3F", "u0C40", "u0C46",
          "u0C47", "u0C48", "u0C4A", "u0C4B", "u0C4C", "u0C4D", "u0C55",
          "u0C56", "u0C62", "u0C63", "u0C81", "u0CBC", "u0CBF", "u0CC6",
          "u0CCC", "u0CCD", "u0CE2", "u0CE3", "u0D00", "u0D01", "u0D3B",
          "u0D3C", "u0D41", "u0D42", "u0D43", "u0D44", "u0D4D", "u0D62",
          "u0D63", "u0D81", "u0DCA", "u0DD2", "u0DD3", "u0DD4", "u0DD6",
          "u0E31", "u0E34", "u0E35", "u0E36", "u0E37", "u0E38", "u0E39",
          "u0E3A", "u0E46", "u0E47", "u0E48", "u0E49", "u0E4A", "u0E4B",
          "u0E4C", "u0E4D", "u0E4E", "u0EB1", "u0EB4", "u0EB5", "u0EB6",
          "u0EB7", "u0EB8", "u0EB9", "u0EBA", "u0EBB", "u0EBC", "u0EC6",
          "u0EC8", "u0EC9", "u0ECA", "u0ECB", "u0ECC", "u0ECD", "u0ECE",
          "u0F18", "u0F19", "u0F35", "u0F37", "u0F39", "u0F71", "u0F72",
          "u0F73", "u0F74", "u0F75", "u0F76", "u0F77", "u0F78", "u0F79",
          "u0F7A", "u0F7B", "u0F7C", "u0F7D", "u0F7E", "u0F80", "u0F81",
          "u0F82", "u0F83", "u0F84", "u0F86", "u0F87", "u0F8D", "u0F8E",
          "u0F8F", "u0F90", "u0F91", "u0F92", "u0F93", "u0F94", "u0F95",
          "u0F96", "u0F97", "u0F99", "u0F9A", "u0F9B", "u0F9C", "u0F9D",
          "u0F9E", "u0F9F", "u0FA0", "u0FA1", "u0FA2", "u0FA3", "u0FA4",
          "u0FA5", "u0FA6", "u0FA7", "u0FA8", "u0FA9", "u0FAA", "u0FAB",
          "u0FAC", "u0FAD", "u0FAE", "u0FAF", "u0FB0", "u0FB1", "u0FB2",
          "u0FB3", "u0FB4", "u0FB5", "u0FB6", "u0FB7", "u0FB8", "u0FB9",
          "u0FBA", "u0FBB", "u0FBC", "u0FC6", "u102D", "u102E", "u102F",
          "u1030", "u1032", "u1033", "u1034", "u1035", "u1036", "u1037",
          "u1039", "u103A", "u103D", "u103E", "u1058", "u1059", "u105E",
          "u105F", "u1060", "u1071", "u1072", "u1073", "u1074", "u1082",
          "u1085", "u1086", "u108D", "u109D", "u10FC", "u135D", "u135E",
          "u135F", "u1712", "u1713", "u1714", "u1732", "u1733", "u1752",
          "u1753", "u1772", "u1773", "u17B4", "u17B5", "u17B7", "u17B8",
          "u17B9", "u17BA", "u17BB", "u17BC", "u17BD", "u17C6", "u17C9",
          "u17CA", "u17CB", "u17CC", "u17CD", "u17CE", "u17CF", "u17D0",
          "u17D1", "u17D2", "u17D3", "u17D7", "u17DD", "u180B", "u180C",
          "u180D", "u180E", "u180F", "u1843", "u1885", "u1886", "u18A9",
          "u1920", "u1921", "u1922", "u1927", "u1928", "u1932", "u1939",
          "u193A", "u193B", "u1A17", "u1A18", "u1A1B", "u1A56", "u1A58",
          "u1A59", "u1A5A", "u1A5B", "u1A5C", "u1A5D", "u1A5E", "u1A60",
          "u1A62", "u1A65", "u1A66", "u1A67", "u1A68", "u1A69", "u1A6A",
          "u1A6B", "u1A6C", "u1A73", "u1A74", "u1A75", "u1A76", "u1A77",
          "u1A78", "u1A79", "u1A7A", "u1A7B", "u1A7C", "u1A7F", "u1AA7",
          "u1AB0", "u1AB1", "u1AB2", "u1AB3", "u1AB4", "u1AB5", "u1AB6",
          "u1AB7", "u1AB8", "u1AB9", "u1ABA", "u1ABB", "u1ABC", "u1ABD",
          "u1ABE", "u1ABF", "u1AC0", "u1AC1", "u1AC2", "u1AC3", "u1AC4",
          "u1AC5", "u1AC6", "u1AC7", "u1AC8", "u1AC9", "u1ACA", "u1ACB",
          "u1ACC", "u1ACD", "u1ACE", "u1ACF", "u1AD0", "u1AD1", "u1AD2",
          "u1AD3", "u1AD4", "u1AD5", "u1AD6", "u1AD7", "u1AD8", "u1AD9",
          "u1ADA", "u1ADB", "u1ADC", "u1ADD", "u1AE0", "u1AE1", "u1AE2",
          "u1AE3", "u1AE4", "u1AE5", "u1AE6", "u1AE7", "u1AE8", "u1AE9",
          "u1AEA", "u1AEB", "u1B00", "u1B01", "u1B02", "u1B03", "u1B34",
          "u1B36", "u1B37", "u1B38", "u1B39", "u1B3A", "u1B3C", "u1B42",
          "u1B6B", "u1B6C", "u1B6D", "u1B6E", "u1B6F", "u1B70", "u1B71",
          "u1B72", "u1B73", "u1B80", "u1B81", "u1BA2", "u1BA3", "u1BA4",
          "u1BA5", "u1BA8", "u1BA9", "u1BAB", "u1BAC", "u1BAD", "u1BE6",
          "u1BE8", "u1BE9", "u1BED", "u1BEF", "u1BF0", "u1BF1", "u1C2C",
          "u1C2D", "u1C2E", "u1C2F", "u1C30", "u1C31", "u1C32", "u1C33",
          "u1C36", "u1C37", "u1C78", "u1C79", "u1C7A", "u1C7B", "u1C7C",
          "u1C7D", "u1CD0", "u1CD1", "u1CD2", "u1CD4", "u1CD5", "u1CD6",
          "u1CD7", "u1CD8", "u1CD9", "u1CDA", "u1CDB", "u1CDC", "u1CDD",
          "u1CDE", "u1CDF", "u1CE0", "u1CE2", "u1CE3", "u1CE4", "u1CE5",
          "u1CE6", "u1CE7", "u1CE8", "u1CED", "u1CF4", "u1CF8", "u1CF9",
          "u1D2C", "u1D2D", "u1D2E", "u1D2F", "u1D30", "u1D31", "u1D32",
          "u1D33", "u1D34", "u1D35", "u1D36", "u1D37", "u1D38", "u1D39",
          "u1D3A", "u1D3B", "u1D3C", "u1D3D", "u1D3E", "u1D3F", "u1D40",
          "u1D41", "u1D42", "u1D43", "u1D44", "u1D45", "u1D46", "u1D47",
          "u1D48", "u1D49", "u1D4A", "u1D4B", "u1D4C", "u1D4D", "u1D4E",
          "u1D4F", "u1D50", "u1D51", "u1D52", "u1D53", "u1D54", "u1D55",
          "u1D56", "u1D57", "u1D58", "u1D59", "u1D5A", "u1D5B", "u1D5C",
          "u1D5D", "u1D5E", "u1D5F", "u1D60", "u1D61", "u1D62", "u1D63",
          "u1D64", "u1D65", "u1D66", "u1D67", "u1D68", "u1D69", "u1D6A",
          "u1D78", "u1D9B", "u1D9C", "u1D9D", "u1D9E", "u1D9F", "u1DA0",
          "u1DA1", "u1DA2", "u1DA3", "u1DA4", "u1DA5", "u1DA6", "u1DA7",
          "u1DA8", "u1DA9", "u1DAA", "u1DAB", "u1DAC", "u1DAD", "u1DAE",
          "u1DAF", "u1DB0", "u1DB1", "u1DB2", "u1DB3", "u1DB4", "u1DB5",
          "u1DB6", "u1DB7", "u1DB8", "u1DB9", "u1DBA", "u1DBB", "u1DBC",
          "u1DBD", "u1DBE", "u1DBF", "u1DC0", "u1DC1", "u1DC2", "u1DC3",
          "u1DC4", "u1DC5", "u1DC6", "u1DC7", "u1DC8", "u1DC9", "u1DCA",
          "u1DCB", "u1DCC", "u1DCD", "u1DCE", "u1DCF", "u1DD0", "u1DD1",
          "u1DD2", "u1DD3", "u1DD4", "u1DD5", "u1DD6", "u1DD7", "u1DD8",
          "u1DD9", "u1DDA", "u1DDB", "u1DDC", "u1DDD", "u1DDE", "u1DDF",
          "u1DE0", "u1DE1", "u1DE2", "u1DE3", "u1DE4", "u1DE5", "u1DE6",
          "u1DE7", "u1DE8", "u1DE9", "u1DEA", "u1DEB", "u1DEC", "u1DED",
          "u1DEE", "u1DEF", "u1DF0", "u1DF1", "u1DF2", "u1DF3", "u1DF4",
          "u1DF5", "u1DF6", "u1DF7", "u1DF8", "u1DF9", "u1DFA", "u1DFB",
          "u1DFC", "u1DFD", "u1DFE", "u1DFF", "u1FBD", "u1FBF", "u1FC0",
          "u1FC1", "u1FCD", "u1FCE", "u1FCF", "u1FDD", "u1FDE", "u1FDF",
          "u1FED", "u1FEE", "u1FEF", "u1FFD", "u1FFE", "u200B", "u200C",
          "u200D", "u200E", "u200F", "u2018", "u2019", "u2024", "u2027",
          "u202A", "u202B", "u202C", "u202D", "u202E", "u2060", "u2061",
          "u2062", "u2063", "u2064", "u2066", "u2067", "u2068", "u2069",
          "u206A", "u206B", "u206C", "u206D", "u206E", "u206F", "u2071",
          "u207F", "u2090", "u2091", "u2092", "u2093", "u2094", "u2095",
          "u2096", "u2097", "u2098", "u2099", "u209A", "u209B", "u209C",
          "u20D0", "u20D1", "u20D2", "u20D3", "u20D4", "u20D5", "u20D6",
          "u20D7", "u20D8", "u20D9", "u20DA", "u20DB", "u20DC", "u20DD",
          "u20DE", "u20DF", "u20E0", "u20E1", "u20E2", "u20E3", "u20E4",
          "u20E5", "u20E6", "u20E7", "u20E8", "u20E9", "u20EA", "u20EB",
          "u20EC", "u20ED", "u20EE", "u20EF", "u20F0", "u2C7C", "u2C7D",
          "u2CEF", "u2CF0", "u2CF1", "u2D6F", "u2D7F", "u2DE0", "u2DE1",
          "u2DE2", "u2DE3", "u2DE4", "u2DE5", "u2DE6", "u2DE7", "u2DE8",
          "u2DE9", "u2DEA", "u2DEB", "u2DEC", "u2DED", "u2DEE", "u2DEF",
          "u2DF0", "u2DF1", "u2DF2", "u2DF3", "u2DF4", "u2DF5", "u2DF6",
          "u2DF7", "u2DF8", "u2DF9", "u2DFA", "u2DFB", "u2DFC", "u2DFD",
          "u2DFE", "u2DFF", "u2E2F", "u3005", "u302A", "u302B", "u302C",
          "u302D", "u3031", "u3032", "u3033", "u3034", "u3035", "u303B",
          "u3099", "u309A", "u309B", "u309C", "u309D", "u309E", "u30FC",
          "u30FD", "u30FE", "uA015", "uA4F8", "uA4F9", "uA4FA", "uA4FB",
          "uA4FC", "uA4FD", "uA60C", "uA66F", "uA670", "uA671", "uA672",
          "uA674", "uA675", "uA676", "uA677", "uA678", "uA679", "uA67A",
          "uA67B", "uA67C", "uA67D", "uA67F", "uA69C", "uA69D", "uA69E",
          "uA69F", "uA6F0", "uA6F1", "uA700", "uA701", "uA702", "uA703",
          "uA704", "uA705", "uA706", "uA707", "uA708", "uA709", "uA70A",
          "uA70B", "uA70C", "uA70D", "uA70E", "uA70F", "uA710", "uA711",
          "uA712", "uA713", "uA714", "uA715", "uA716", "uA717", "uA718",
          "uA719", "uA71A", "uA71B", "uA71C", "uA71D", "uA71E", "uA71F",
          "uA720", "uA721", "uA770", "uA788", "uA789", "uA78A", "uA7F1",
          "uA7F2", "uA7F3", "uA7F4", "uA7F8", "uA7F9", "uA802", "uA806",
          "uA80B", "uA825", "uA826", "uA82C", "uA8C4", "uA8C5", "uA8E0",
          "uA8E1", "uA8E2", "uA8E3", "uA8E4", "uA8E5", "uA8E6", "uA8E7",
          "uA8E8", "uA8E9", "uA8EA", "uA8EB", "uA8EC", "uA8ED", "uA8EE",
          "uA8EF", "uA8F0", "uA8F1", "uA8FF", "uA926", "uA927", "uA928",
          "uA929", "uA92A", "uA92B", "uA92C", "uA92D", "uA947", "uA948",
          "uA949", "uA94A", "uA94B", "uA94C", "uA94D", "uA94E", "uA94F",
          "uA950", "uA951", "uA980", "uA981", "uA982", "uA9B3", "uA9B6",
          "uA9B7", "uA9B8", "uA9B9", "uA9BC", "uA9BD", "uA9CF", "uA9E5",
          "uA9E6", "uAA29", "uAA2A", "uAA2B", "uAA2C", "uAA2D", "uAA2E",
          "uAA31", "uAA32", "uAA35", "uAA36", "uAA43", "uAA4C", "uAA70",
          "uAA7C", "uAAB0", "uAAB2", "uAAB3", "uAAB4", "uAAB7", "uAAB8",
          "uAABE", "uAABF", "uAAC1", "uAADD", "uAAEC", "uAAED", "uAAF3",
          "uAAF4", "uAAF6", "uAB5B", "uAB5C", "uAB5D", "uAB5E", "uAB5F",
          "uAB69", "uAB6A", "uAB6B", "uABE5", "uABE8", "uABED", "uFB1E",
          "uFBB2", "uFBB3", "uFBB4", "uFBB5", "uFBB6", "uFBB7", "uFBB8",
          "uFBB9", "uFBBA", "uFBBB", "uFBBC", "uFBBD", "uFBBE", "uFBBF",
          "uFBC0", "uFBC1", "uFBC2", "uFE00", "uFE01", "uFE02", "uFE03",
          "uFE04", "uFE05", "uFE06", "uFE07", "uFE08", "uFE09", "uFE0A",
          "uFE0B", "uFE0C", "uFE0D", "uFE0E", "uFE0F", "uFE13", "uFE20",
          "uFE21", "uFE22", "uFE23", "uFE24", "uFE25", "uFE26", "uFE27",
          "uFE28", "uFE29", "uFE2A", "uFE2B", "uFE2C", "uFE2D", "uFE2E",
          "uFE2F", "uFE52", "uFE55", "uFEFF", "uFF07", "uFF0E", "uFF1A",
          "uFF3E", "uFF40", "uFF70", "uFF9E", "uFF9F", "uFFE3", "uFFF9",
          "uFFFA", "uFFFB" }
      astral ==
        <<
          "uD800", "uDDFD", "uD800", "uDEE0", "uD800", "uDF76", "uD800",
          "uDF77", "uD800", "uDF78", "uD800", "uDF79", "uD800", "uDF7A",
          "uD801", "uDF80", "uD801", "uDF81", "uD801", "uDF82", "uD801",
          "uDF83", "uD801", "uDF84", "uD801", "uDF85", "uD801", "uDF87",
          "uD801", "uDF88", "uD801", "uDF89", "uD801", "uDF8A", "uD801",
          "uDF8B", "uD801", "uDF8C", "uD801", "uDF8D", "uD801", "uDF8E",
          "uD801", "uDF8F", "uD801", "uDF90", "uD801", "uDF91", "uD801",
          "uDF92", "uD801", "uDF93", "uD801", "uDF94", "uD801", "uDF95",
          "uD801", "uDF96", "uD801", "uDF97", "uD801", "uDF98", "uD801",
          "uDF99", "uD801", "uDF9A", "uD801", "uDF9B", "uD801", "uDF9C",
          "uD801", "uDF9D", "uD801", "uDF9E", "uD801", "uDF9F", "uD801",
          "uDFA0", "uD801", "uDFA1", "uD801", "uDFA2", "uD801", "uDFA3",
          "uD801", "uDFA4", "uD801", "uDFA5", "uD801", "uDFA6", "uD801",
          "uDFA7", "uD801", "uDFA8", "uD801", "uDFA9", "uD801", "uDFAA",
          "uD801", "uDFAB", "uD801", "uDFAC", "uD801", "uDFAD", "uD801",
          "uDFAE", "uD801", "uDFAF", "uD801", "uDFB0", "uD801", "uDFB2",
          "uD801", "uDFB3", "uD801", "uDFB4", "uD801", "uDFB5", "uD801",
          "uDFB6", "uD801", "uDFB7", "uD801", "uDFB8", "uD801", "uDFB9",
          "uD801", "uDFBA", "uD802", "uDE01", "uD802", "uDE02", "uD802",
          "uDE03", "uD802", "uDE05", "uD802", "uDE06", "uD802", "uDE0C",
          "uD802", "uDE0D", "uD802", "uDE0E", "uD802", "uDE0F", "uD802",
          "uDE38", "uD802", "uDE39", "uD802", "uDE3A", "uD802", "uDE3F",
          "uD802", "uDEE5", "uD802", "uDEE6", "uD803", "uDD24", "uD803",
          "uDD25", "uD803", "uDD26", "uD803", "uDD27", "uD803", "uDD4E",
          "uD803", "uDD69", "uD803", "uDD6A", "uD803", "uDD6B", "uD803",
          "uDD6C", "uD803", "uDD6D", "uD803", "uDD6F", "uD803", "uDEAB",
          "uD803", "uDEAC", "uD803", "uDEC5", "uD803", "uDEFA", "uD803",
          "uDEFB", "uD803", "uDEFC", "uD803", "uDEFD", "uD803", "uDEFE",
          "uD803", "uDEFF", "uD803", "uDF46", "uD803", "uDF47", "uD803",
          "uDF48", "uD803", "uDF49", "uD803", "uDF4A", "uD803", "uDF4B",
          "uD803", "uDF4C", "uD803", "uDF4D", "uD803", "uDF4E", "uD803",
          "uDF4F", "uD803", "uDF50", "uD803", "uDF82", "uD803", "uDF83",
          "uD803", "uDF84", "uD803", "uDF85", "uD804", "uDC01", "uD804",
          "uDC38", "uD804", "uDC39", "uD804", "uDC3A", "uD804", "uDC3B",
          "uD804", "uDC3C", "uD804", "uDC3D", "uD804", "uDC3E", "uD804",
          "uDC3F", "uD804", "uDC40", "uD804", "uDC41", "uD804", "uDC42",
          "uD804", "uDC43", "uD804", "uDC44", "uD804", "uDC45", "uD804",
          "uDC46", "uD804", "uDC70", "uD804", "uDC73", "uD804", "uDC74",
          "uD804", "uDC7F", "uD804", "uDC80", "uD804", "uDC81", "uD804",
          "uDCB3", "uD804", "uDCB4", "uD804", "uDCB5", "uD804", "uDCB6",
          "uD804", "uDCB9", "uD804", "uDCBA", "uD804", "uDCBD", "uD804",
          "uDCC2", "uD804", "uDCCD", "uD804", "uDD00", "uD804", "uDD01",
          "uD804", "uDD02", "uD804", "uDD27", "uD804", "uDD28", "uD804",
          "uDD29", "uD804", "uDD2A", "uD804", "uDD2B", "uD804", "uDD2D",
          "uD804", "uDD2E", "uD804", "uDD2F", "uD804", "uDD30", "uD804",
          "uDD31", "uD804", "uDD32", "uD804", "uDD33", "uD804", "uDD34",
          "uD804", "uDD73", "uD804", "uDD80", "uD804", "uDD81", "uD804",
          "uDDB6", "uD804", "uDDB7", "uD804", "uDDB8", "uD804", "uDDB9",
          "uD804", "uDDBA", "uD804", "uDDBB", "uD804", "uDDBC", "uD804",
          "uDDBD", "uD804", "uDDBE", "uD804", "uDDC9", "uD804", "uDDCA",
          "uD804", "uDDCB", "uD804", "uDDCC", "uD804", "uDDCF", "uD804",
          "uDE2F", "uD804", "uDE30", "uD804", "uDE31", "uD804", "uDE34",
          "uD804", "uDE36", "uD804", "uDE37", "uD804", "uDE3E", "uD804",
          "uDE41", "uD804", "uDEDF", "uD804", "uDEE3", "uD804", "uDEE4",
          "uD804", "uDEE5", "uD804", "uDEE6", "uD804", "uDEE7", "uD804",
          "uDEE8", "uD804", "uDEE9", "uD804", "uDEEA", "uD804", "uDF00",
          "uD804", "uDF01", "uD804", "uDF3B", "uD804", "uDF3C", "uD804",
          "uDF40", "uD804", "uDF66", "uD804", "uDF67", "uD804", "uDF68",
          "uD804", "uDF69", "uD804", "uDF6A", "uD804", "uDF6B", "uD804",
          "uDF6C", "uD804", "uDF70", "uD804", "uDF71", "uD804", "uDF72",
          "uD804", "uDF73", "uD804", "uDF74", "uD804", "uDFBB", "uD804",
          "uDFBC", "uD804", "uDFBD", "uD804", "uDFBE", "uD804", "uDFBF",
          "uD804", "uDFC0", "uD804", "uDFCE", "uD804", "uDFD0", "uD804",
          "uDFD2", "uD804", "uDFE1", "uD804", "uDFE2", "uD805", "uDC38",
          "uD805", "uDC39", "uD805", "uDC3A", "uD805", "uDC3B", "uD805",
          "uDC3C", "uD805", "uDC3D", "uD805", "uDC3E", "uD805", "uDC3F",
          "uD805", "uDC42", "uD805", "uDC43", "uD805", "uDC44", "uD805",
          "uDC46", "uD805", "uDC5E", "uD805", "uDCB3", "uD805", "uDCB4",
          "uD805", "uDCB5", "uD805", "uDCB6", "uD805", "uDCB7", "uD805",
          "uDCB8", "uD805", "uDCBA", "uD805", "uDCBF", "uD805", "uDCC0",
          "uD805", "uDCC2", "uD805", "uDCC3", "uD805", "uDDB2", "uD805",
          "uDDB3", "uD805", "uDDB4", "uD805", "uDDB5", "uD805", "uDDBC",
          "uD805", "uDDBD", "uD805", "uDDBF", "uD805", "uDDC0", "uD805",
          "uDDDC", "uD805", "uDDDD", "uD805", "uDE33", "uD805", "uDE34",
          "uD805", "uDE35", "uD805", "uDE36", "uD805", "uDE37", "uD805",
          "uDE38", "uD805", "uDE39", "uD805", "uDE3A", "uD805", "uDE3D",
          "uD805", "uDE3F", "uD805", "uDE40", "uD805", "uDEAB", "uD805",
          "uDEAD", "uD805", "uDEB0", "uD805", "uDEB1", "uD805", "uDEB2",
          "uD805", "uDEB3", "uD805", "uDEB4", "uD805", "uDEB5", "uD805",
          "uDEB7", "uD805", "uDF1D", "uD805", "uDF1F", "uD805", "uDF22",
          "uD805", "uDF23", "uD805", "uDF24", "uD805", "uDF25", "uD805",
          "uDF27", "uD805", "uDF28", "uD805", "uDF29", "uD805", "uDF2A",
          "uD805", "uDF2B", "uD806", "uDC2F", "uD806", "uDC30", "uD806",
          "uDC31", "uD806", "uDC32", "uD806", "uDC33", "uD806", "uDC34",
          "uD806", "uDC35", "uD806", "uDC36", "uD806", "uDC37", "uD806",
          "uDC39", "uD806", "uDC3A", "uD806", "uDD3B", "uD806", "uDD3C",
          "uD806", "uDD3E", "uD806", "uDD43", "uD806", "uDDD4", "uD806",
          "uDDD5", "uD806", "uDDD6", "uD806", "uDDD7", "uD806", "uDDDA",
          "uD806", "uDDDB", "uD806", "uDDE0", "uD806", "uDE01", "uD806",
          "uDE02", "uD806", "uDE03", "uD806", "uDE04", "uD806", "uDE05",
          "uD806", "uDE06", "uD806", "uDE07", "uD806", "uDE08", "uD806",
          "uDE09", "uD806", "uDE0A", "uD806", "uDE33", "uD806", "uDE34",
          "uD806", "uDE35", "uD806", "uDE36", "uD806", "uDE37", "uD806",
          "uDE38", "uD806", "uDE3B", "uD806", "uDE3C", "uD806", "uDE3D",
          "uD806", "uDE3E", "uD806", "uDE47", "uD806", "uDE51", "uD806",
          "uDE52", "uD806", "uDE53", "uD806", "uDE54", "uD806", "uDE55",
          "uD806", "uDE56", "uD806", "uDE59", "uD806", "uDE5A", "uD806",
          "uDE5B", "uD806", "uDE8A", "uD806", "uDE8B", "uD806", "uDE8C",
          "uD806", "uDE8D", "uD806", "uDE8E", "uD806", "uDE8F", "uD806",
          "uDE90", "uD806", "uDE91", "uD806", "uDE92", "uD806", "uDE93",
          "uD806", "uDE94", "uD806", "uDE95", "uD806", "uDE96", "uD806",
          "uDE98", "uD806", "uDE99", "uD806", "uDF60", "uD806", "uDF62",
          "uD806", "uDF63", "uD806", "uDF64", "uD806", "uDF66", "uD807",
          "uDC30", "uD807", "uDC31", "uD807", "uDC32", "uD807", "uDC33",
          "uD807", "uDC34", "uD807", "uDC35", "uD807", "uDC36", "uD807",
          "uDC38", "uD807", "uDC39", "uD807", "uDC3A", "uD807", "uDC3B",
          "uD807", "uDC3C", "uD807", "uDC3D", "uD807", "uDC3F", "uD807",
          "uDC92", "uD807", "uDC93", "uD807", "uDC94", "uD807", "uDC95",
          "uD807", "uDC96", "uD807", "uDC97", "uD807", "uDC98", "uD807",
          "uDC99", "uD807", "uDC9A", "uD807", "uDC9B", "uD807", "uDC9C",
          "uD807", "uDC9D", "uD807", "uDC9E", "uD807", "uDC9F", "uD807",
          "uDCA0", "uD807", "uDCA1", "uD807", "uDCA2", "uD807", "uDCA3",
          "uD807", "uDCA4", "uD807", "uDCA5", "uD807", "uDCA6", "uD807",
          "uDCA7", "uD807", "uDCAA", "uD807", "uDCAB", "uD807", "uDCAC",
          "uD807", "uDCAD", "uD807", "uDCAE", "uD807", "uDCAF", "uD807",
          "uDCB0", "uD807", "uDCB2", "uD807", "uDCB3", "uD807", "uDCB5",
          "uD807", "uDCB6", "uD807", "uDD31", "uD807", "uDD32", "uD807",
          "uDD33", "uD807", "uDD34", "uD807", "uDD35", "uD807", "uDD36",
          "uD807", "uDD3A", "uD807", "uDD3C", "uD807", "uDD3D", "uD807",
          "uDD3F", "uD807", "uDD40", "uD807", "uDD41", "uD807", "uDD42",
          "uD807", "uDD43", "uD807", "uDD44", "uD807", "uDD45", "uD807",
          "uDD47", "uD807", "uDD90", "uD807", "uDD91", "uD807", "uDD95",
          "uD807", "uDD97", "uD807", "uDDD9", "uD807", "uDEF3", "uD807",
          "uDEF4", "uD807", "uDF00", "uD807", "uDF01", "uD807", "uDF36",
          "uD807", "uDF37", "uD807", "uDF38", "uD807", "uDF39", "uD807",
          "uDF3A", "uD807", "uDF40", "uD807", "uDF42", "uD807", "uDF5A",
          "uD80D", "uDC30", "uD80D", "uDC31", "uD80D", "uDC32", "uD80D",
          "uDC33", "uD80D", "uDC34", "uD80D", "uDC35", "uD80D", "uDC36",
          "uD80D", "uDC37", "uD80D", "uDC38", "uD80D", "uDC39", "uD80D",
          "uDC3A", "uD80D", "uDC3B", "uD80D", "uDC3C", "uD80D", "uDC3D",
          "uD80D", "uDC3E", "uD80D", "uDC3F", "uD80D", "uDC40", "uD80D",
          "uDC47", "uD80D", "uDC48", "uD80D", "uDC49", "uD80D", "uDC4A",
          "uD80D", "uDC4B", "uD80D", "uDC4C", "uD80D", "uDC4D", "uD80D",
          "uDC4E", "uD80D", "uDC4F", "uD80D", "uDC50", "uD80D", "uDC51",
          "uD80D", "uDC52", "uD80D", "uDC53", "uD80D", "uDC54", "uD80D",
          "uDC55", "uD818", "uDD1E", "uD818", "uDD1F", "uD818", "uDD20",
          "uD818", "uDD21", "uD818", "uDD22", "uD818", "uDD23", "uD818",
          "uDD24", "uD818", "uDD25", "uD818", "uDD26", "uD818", "uDD27",
          "uD818", "uDD28", "uD818", "uDD29", "uD818", "uDD2D", "uD818",
          "uDD2E", "uD818", "uDD2F", "uD81A", "uDEF0", "uD81A", "uDEF1",
          "uD81A", "uDEF2", "uD81A", "uDEF3", "uD81A", "uDEF4", "uD81A",
          "uDF30", "uD81A", "uDF31", "uD81A", "uDF32", "uD81A", "uDF33",
          "uD81A", "uDF34", "uD81A", "uDF35", "uD81A", "uDF36", "uD81A",
          "uDF40", "uD81A", "uDF41", "uD81A", "uDF42", "uD81A", "uDF43",
          "uD81B", "uDD40", "uD81B", "uDD41", "uD81B", "uDD42", "uD81B",
          "uDD6B", "uD81B", "uDD6C", "uD81B", "uDF4F", "uD81B", "uDF8F",
          "uD81B", "uDF90", "uD81B", "uDF91", "uD81B", "uDF92", "uD81B",
          "uDF93", "uD81B", "uDF94", "uD81B", "uDF95", "uD81B", "uDF96",
          "uD81B", "uDF97", "uD81B", "uDF98", "uD81B", "uDF99", "uD81B",
          "uDF9A", "uD81B", "uDF9B", "uD81B", "uDF9C", "uD81B", "uDF9D",
          "uD81B", "uDF9E", "uD81B", "uDF9F", "uD81B", "uDFE0", "uD81B",
          "uDFE1", "uD81B", "uDFE3", "uD81B", "uDFE4", "uD81B", "uDFF2",
          "uD81B", "uDFF3", "uD82B", "uDFF0", "uD82B", "uDFF1", "uD82B",
          "uDFF2", "uD82B", "uDFF3", "uD82B", "uDFF5", "uD82B", "uDFF6",
          "uD82B", "uDFF7", "uD82B", "uDFF8", "uD82B", "uDFF9", "uD82B",
          "uDFFA", "uD82B", "uDFFB", "uD82B", "uDFFD", "uD82B", "uDFFE",
          "uD82F", "uDC9D", "uD82F", "uDC9E", "uD82F", "uDCA0", "uD82F",
          "uDCA1", "uD82F", "uDCA2", "uD82F", "uDCA3", "uD833", "uDF00",
          "uD833", "uDF01", "uD833", "uDF02", "uD833", "uDF03", "uD833",
          "uDF04", "uD833", "uDF05", "uD833", "uDF06", "uD833", "uDF07",
          "uD833", "uDF08", "uD833", "uDF09", "uD833", "uDF0A", "uD833",
          "uDF0B", "uD833", "uDF0C", "uD833", "uDF0D", "uD833", "uDF0E",
          "uD833", "uDF0F", "uD833", "uDF10", "uD833", "uDF11", "uD833",
          "uDF12", "uD833", "uDF13", "uD833", "uDF14", "uD833", "uDF15",
          "uD833", "uDF16", "uD833", "uDF17", "uD833", "uDF18", "uD833",
          "uDF19", "uD833", "uDF1A", "uD833", "uDF1B", "uD833", "uDF1C",
          "uD833", "uDF1D", "uD833", "uDF1E", "uD833", "uDF1F", "uD833",
          "uDF20", "uD833", "uDF21", "uD833", "uDF22", "uD833", "uDF23",
          "uD833", "uDF24", "uD833", "uDF25", "uD833", "uDF26", "uD833",
          "uDF27", "uD833", "uDF28", "uD833", "uDF29", "uD833", "uDF2A",
          "uD833", "uDF2B", "uD833", "uDF2C", "uD833", "uDF2D", "uD833",
          "uDF30", "uD833", "uDF31", "uD833", "uDF32", "uD833", "uDF33",
          "uD833", "uDF34", "uD833", "uDF35", "uD833", "uDF36", "uD833",
          "uDF37", "uD833", "uDF38", "uD833", "uDF39", "uD833", "uDF3A",
          "uD833", "uDF3B", "uD833", "uDF3C", "uD833", "uDF3D", "uD833",
          "uDF3E", "uD833", "uDF3F", "uD833", "uDF40", "uD833", "uDF41",
          "uD833", "uDF42", "uD833", "uDF43", "uD833", "uDF44", "uD833",
          "uDF45", "uD833", "uDF46", "uD834", "uDD67", "uD834", "uDD68",
          "uD834", "uDD69", "uD834", "uDD73", "uD834", "uDD74", "uD834",
          "uDD75", "uD834", "uDD76", "uD834", "uDD77", "uD834", "uDD78",
          "uD834", "uDD79", "uD834", "uDD7A", "uD834", "uDD7B", "uD834",
          "uDD7C", "uD834", "uDD7D", "uD834", "uDD7E", "uD834", "uDD7F",
          "uD834", "uDD80", "uD834", "uDD81", "uD834", "uDD82", "uD834",
          "uDD85", "uD834", "uDD86", "uD834", "uDD87", "uD834", "uDD88",
          "uD834", "uDD89", "uD834", "uDD8A", "uD834", "uDD8B", "uD834",
          "uDDAA", "uD834", "uDDAB", "uD834", "uDDAC", "uD834", "uDDAD",
          "uD834", "uDE42", "uD834", "uDE43", "uD834", "uDE44", "uD836",
          "uDE00", "uD836", "uDE01", "uD836", "uDE02", "uD836", "uDE03",
          "uD836", "uDE04", "uD836", "uDE05", "uD836", "uDE06", "uD836",
          "uDE07", "uD836", "uDE08", "uD836", "uDE09", "uD836", "uDE0A",
          "uD836", "uDE0B", "uD836", "uDE0C", "uD836", "uDE0D", "uD836",
          "uDE0E", "uD836", "uDE0F", "uD836", "uDE10", "uD836", "uDE11",
          "uD836", "uDE12", "uD836", "uDE13", "uD836", "uDE14", "uD836",
          "uDE15", "uD836", "uDE16", "uD836", "uDE17", "uD836", "uDE18",
          "uD836", "uDE19", "uD836", "uDE1A", "uD836", "uDE1B", "uD836",
          "uDE1C", "uD836", "uDE1D", "uD836", "uDE1E", "uD836", "uDE1F",
          "uD836", "uDE20", "uD836", "uDE21", "uD836", "uDE22", "uD836",
          "uDE23", "uD836", "uDE24", "uD836", "uDE25", "uD836", "uDE26",
          "uD836", "uDE27", "uD836", "uDE28", "uD836", "uDE29", "uD836",
          "uDE2A", "uD836", "uDE2B", "uD836", "uDE2C", "uD836", "uDE2D",
          "uD836", "uDE2E", "uD836", "uDE2F", "uD836", "uDE30", "uD836",
          "uDE31", "uD836", "uDE32", "uD836", "uDE33", "uD836", "uDE34",
          "uD836", "uDE35", "uD836", "uDE36", "uD836", "uDE3B", "uD836",
          "uDE3C", "uD836", "uDE3D", "uD836", "uDE3E", "uD836", "uDE3F",
          "uD836", "uDE40", "uD836", "uDE41", "uD836", "uDE42", "uD836",
          "uDE43", "uD836", "uDE44", "uD836", "uDE45", "uD836", "uDE46",
          "uD836", "uDE47", "uD836", "uDE48", "uD836", "uDE49", "uD836",
          "uDE4A", "uD836", "uDE4B", "uD836", "uDE4C", "uD836", "uDE4D",
          "uD836", "uDE4E", "uD836", "uDE4F", "uD836", "uDE50", "uD836",
          "uDE51", "uD836", "uDE52", "uD836", "uDE53", "uD836", "uDE54",
          "uD836", "uDE55", "uD836", "uDE56", "uD836", "uDE57", "uD836",
          "uDE58", "uD836", "uDE59", "uD836", "uDE5A", "uD836", "uDE5B",
          "uD836", "uDE5C", "uD836", "uDE5D", "uD836", "uDE5E", "uD836",
          "uDE5F", "uD836", "uDE60", "uD836", "uDE61", "uD836", "uDE62",
          "uD836", "uDE63", "uD836", "uDE64", "uD836", "uDE65", "uD836",
          "uDE66", "uD836", "uDE67", "uD836", "uDE68", "uD836", "uDE69",
          "uD836", "uDE6A", "uD836", "uDE6B", "uD836", "uDE6C", "uD836",
          "uDE75", "uD836", "uDE84", "uD836", "uDE9B", "uD836", "uDE9C",
          "uD836", "uDE9D", "uD836", "uDE9E", "uD836", "uDE9F", "uD836",
          "uDEA1", "uD836", "uDEA2", "uD836", "uDEA3", "uD836", "uDEA4",
          "uD836", "uDEA5", "uD836", "uDEA6", "uD836", "uDEA7", "uD836",
          "uDEA8", "uD836", "uDEA9", "uD836", "uDEAA", "uD836", "uDEAB",
          "uD836", "uDEAC", "uD836", "uDEAD", "uD836", "uDEAE", "uD836",
          "uDEAF", "uD838", "uDC00", "uD838", "uDC01", "uD838", "uDC02",
          "uD838", "uDC03", "uD838", "uDC04", "uD838", "uDC05", "uD838",
          "uDC06", "uD838", "uDC08", "uD838", "uDC09", "uD838", "uDC0A",
          "uD838", "uDC0B", "uD838", "uDC0C", "uD838", "uDC0D", "uD838",
          "uDC0E", "uD838", "uDC0F", "uD838", "uDC10", "uD838", "uDC11",
          "uD838", "uDC12", "uD838", "uDC13", "uD838", "uDC14", "uD838",
          "uDC15", "uD838", "uDC16", "uD838", "uDC17", "uD838", "uDC18",
          "uD838", "uDC1B", "uD838", "uDC1C", "uD838", "uDC1D", "uD838",
          "uDC1E", "uD838", "uDC1F", "uD838", "uDC20", "uD838", "uDC21",
          "uD838", "uDC23", "uD838", "uDC24", "uD838", "uDC26", "uD838",
          "uDC27", "uD838", "uDC28", "uD838", "uDC29", "uD838", "uDC2A",
          "uD838", "uDC30", "uD838", "uDC31", "uD838", "uDC32", "uD838",
          "uDC33", "uD838", "uDC34", "uD838", "uDC35", "uD838", "uDC36",
          "uD838", "uDC37", "uD838", "uDC38", "uD838", "uDC39", "uD838",
          "uDC3A", "uD838", "uDC3B", "uD838", "uDC3C", "uD838", "uDC3D",
          "uD838", "uDC3E", "uD838", "uDC3F", "uD838", "uDC40", "uD838",
          "uDC41", "uD838", "uDC42", "uD838", "uDC43", "uD838", "uDC44",
          "uD838", "uDC45", "uD838", "uDC46", "uD838", "uDC47", "uD838",
          "uDC48", "uD838", "uDC49", "uD838", "uDC4A", "uD838", "uDC4B",
          "uD838", "uDC4C", "uD838", "uDC4D", "uD838", "uDC4E", "uD838",
          "uDC4F", "uD838", "uDC50", "uD838", "uDC51", "uD838", "uDC52",
          "uD838", "uDC53", "uD838", "uDC54", "uD838", "uDC55", "uD838",
          "uDC56", "uD838", "uDC57", "uD838", "uDC58", "uD838", "uDC59",
          "uD838", "uDC5A", "uD838", "uDC5B", "uD838", "uDC5C", "uD838",
          "uDC5D", "uD838", "uDC5E", "uD838", "uDC5F", "uD838", "uDC60",
          "uD838", "uDC61", "uD838", "uDC62", "uD838", "uDC63", "uD838",
          "uDC64", "uD838", "uDC65", "uD838", "uDC66", "uD838", "uDC67",
          "uD838", "uDC68", "uD838", "uDC69", "uD838", "uDC6A", "uD838",
          "uDC6B", "uD838", "uDC6C", "uD838", "uDC6D", "uD838", "uDC8F",
          "uD838", "uDD30", "uD838", "uDD31", "uD838", "uDD32", "uD838",
          "uDD33", "uD838", "uDD34", "uD838", "uDD35", "uD838", "uDD36",
          "uD838", "uDD37", "uD838", "uDD38", "uD838", "uDD39", "uD838",
          "uDD3A", "uD838", "uDD3B", "uD838", "uDD3C", "uD838", "uDD3D",
          "uD838", "uDEAE", "uD838", "uDEEC", "uD838", "uDEED", "uD838",
          "uDEEE", "uD838", "uDEEF", "uD839", "uDCEB", "uD839", "uDCEC",
          "uD839", "uDCED", "uD839", "uDCEE", "uD839", "uDCEF", "uD839",
          "uDDEE", "uD839", "uDDEF", "uD839", "uDEE3", "uD839", "uDEE6",
          "uD839", "uDEEE", "uD839", "uDEEF", "uD839", "uDEF5", "uD839",
          "uDEFF", "uD83A", "uDCD0", "uD83A", "uDCD1", "uD83A", "uDCD2",
          "uD83A", "uDCD3", "uD83A", "uDCD4", "uD83A", "uDCD5", "uD83A",
          "uDCD6", "uD83A", "uDD44", "uD83A", "uDD45", "uD83A", "uDD46",
          "uD83A", "uDD47", "uD83A", "uDD48", "uD83A", "uDD49", "uD83A",
          "uDD4A", "uD83A", "uDD4B", "uD83C", "uDFFB", "uD83C", "uDFFC",
          "uD83C", "uDFFD", "uD83C", "uDFFE", "uD83C", "uDFFF", "uDB40",
          "uDC01", "uDB40", "uDC20", "uDB40", "uDC21", "uDB40", "uDC22",
          "uDB40", "uDC23", "uDB40", "uDC24", "uDB40", "uDC25", "uDB40",
          "uDC26", "uDB40", "uDC27", "uDB40", "uDC28", "uDB40", "uDC29",
          "uDB40", "uDC2A", "uDB40", "uDC2B", "uDB40", "uDC2C", "uDB40",
          "uDC2D", "uDB40", "uDC2E", "uDB40", "uDC2F", "uDB40", "uDC30",
          "uDB40", "uDC31", "uDB40", "uDC32", "uDB40", "uDC33", "uDB40",
          "uDC34", "uDB40", "uDC35", "uDB40", "uDC36", "uDB40", "uDC37",
          "uDB40", "uDC38", "uDB40", "uDC39", "uDB40", "uDC3A", "uDB40",
          "uDC3B", "uDB40", "uDC3C", "uDB40", "uDC3D", "uDB40", "uDC3E",
          "uDB40", "uDC3F", "uDB40", "uDC40", "uDB40", "uDC41", "uDB40",
          "uDC42", "uDB40", "uDC43", "uDB40", "uDC44", "uDB40", "uDC45",
          "uDB40", "uDC46", "uDB40", "uDC47", "uDB40", "uDC48", "uDB40",
          "uDC49", "uDB40", "uDC4A", "uDB40", "uDC4B", "uDB40", "uDC4C",
          "uDB40", "uDC4D", "uDB40", "uDC4E", "uDB40", "uDC4F", "uDB40",
          "uDC50", "uDB40", "uDC51", "uDB40", "uDC52", "uDB40", "uDC53",
          "uDB40", "uDC54", "uDB40", "uDC55", "uDB40", "uDC56", "uDB40",
          "uDC57", "uDB40", "uDC58", "uDB40", "uDC59", "uDB40", "uDC5A",
          "uDB40", "uDC5B", "uDB40", "uDC5C", "uDB40", "uDC5D", "uDB40",
          "uDC5E", "uDB40", "uDC5F", "uDB40", "uDC60", "uDB40", "uDC61",
          "uDB40", "uDC62", "uDB40", "uDC63", "uDB40", "uDC64", "uDB40",
          "uDC65", "uDB40", "uDC66", "uDB40", "uDC67", "uDB40", "uDC68",
          "uDB40", "uDC69", "uDB40", "uDC6A", "uDB40", "uDC6B", "uDB40",
          "uDC6C", "uDB40", "uDC6D", "uDB40", "uDC6E", "uDB40", "uDC6F",
          "uDB40", "uDC70", "uDB40", "uDC71", "uDB40", "uDC72", "uDB40",
          "uDC73", "uDB40", "uDC74", "uDB40", "uDC75", "uDB40", "uDC76",
          "uDB40", "uDC77", "uDB40", "uDC78", "uDB40", "uDC79", "uDB40",
          "uDC7A", "uDB40", "uDC7B", "uDB40", "uDC7C", "uDB40", "uDC7D",
          "uDB40", "uDC7E", "uDB40", "uDC7F", "uDB40", "uDD00", "uDB40",
          "uDD01", "uDB40", "uDD02", "uDB40", "uDD03", "uDB40", "uDD04",
          "uDB40", "uDD05", "uDB40", "uDD06", "uDB40", "uDD07", "uDB40",
          "uDD08", "uDB40", "uDD09", "uDB40", "uDD0A", "uDB40", "uDD0B",
          "uDB40", "uDD0C", "uDB40", "uDD0D", "uDB40", "uDD0E", "uDB40",
          "uDD0F", "uDB40", "uDD10", "uDB40", "uDD11", "uDB40", "uDD12",
          "uDB40", "uDD13", "uDB40", "uDD14", "uDB40", "uDD15", "uDB40",
          "uDD16", "uDB40", "uDD17", "uDB40", "uDD18", "uDB40", "uDD19",
          "uDB40", "uDD1A", "uDB40", "uDD1B", "uDB40", "uDD1C", "uDB40",
          "uDD1D", "uDB40", "uDD1E", "uDB40", "uDD1F", "uDB40", "uDD20",
          "uDB40", "uDD21", "uDB40", "uDD22", "uDB40", "uDD23", "uDB40",
          "uDD24", "uDB40", "uDD25", "uDB40", "uDD26", "uDB40", "uDD27",
          "uDB40", "uDD28", "uDB40", "uDD29", "uDB40", "uDD2A", "uDB40",
          "uDD2B", "uDB40", "uDD2C", "uDB40", "uDD2D", "uDB40", "uDD2E",
          "uDB40", "uDD2F", "uDB40", "uDD30", "uDB40", "uDD31", "uDB40",
          "uDD32", "uDB40", "uDD33", "uDB40", "uDD34", "uDB40", "uDD35",
          "uDB40", "uDD36", "uDB40", "uDD37", "uDB40", "uDD38", "uDB40",
          "uDD39", "uDB40", "uDD3A", "uDB40", "uDD3B", "uDB40", "uDD3C",
          "uDB40", "uDD3D", "uDB40", "uDD3E", "uDB40", "uDD3F", "uDB40",
          "uDD40", "uDB40", "uDD41", "uDB40", "uDD42", "uDB40", "uDD43",
          "uDB40", "uDD44", "uDB40", "uDD45", "uDB40", "uDD46", "uDB40",
          "uDD47", "uDB40", "uDD48", "uDB40", "uDD49", "uDB40", "uDD4A",
          "uDB40", "uDD4B", "uDB40", "uDD4C", "uDB40", "uDD4D", "uDB40",
          "uDD4E", "uDB40", "uDD4F", "uDB40", "uDD50", "uDB40", "uDD51",
          "uDB40", "uDD52", "uDB40", "uDD53", "uDB40", "uDD54", "uDB40",
          "uDD55", "uDB40", "uDD56", "uDB40", "uDD57", "uDB40", "uDD58",
          "uDB40", "uDD59", "uDB40", "uDD5A", "uDB40", "uDD5B", "uDB40",
          "uDD5C", "uDB40", "uDD5D", "uDB40", "uDD5E", "uDB40", "uDD5F",
          "uDB40", "uDD60", "uDB40", "uDD61", "uDB40", "uDD62", "uDB40",
          "uDD63", "uDB40", "uDD64", "uDB40", "uDD65", "uDB40", "uDD66",
          "uDB40", "uDD67", "uDB40", "uDD68", "uDB40", "uDD69", "uDB40",
          "uDD6A", "uDB40", "uDD6B", "uDB40", "uDD6C", "uDB40", "uDD6D",
          "uDB40", "uDD6E", "uDB40", "uDD6F", "uDB40", "uDD70", "uDB40",
          "uDD71", "uDB40", "uDD72", "uDB40", "uDD73", "uDB40", "uDD74",
          "uDB40", "uDD75", "uDB40", "uDD76", "uDB40", "uDD77", "uDB40",
          "uDD78", "uDB40", "uDD79", "uDB40", "uDD7A", "uDB40", "uDD7B",
          "uDB40", "uDD7C", "uDB40", "uDD7D", "uDB40", "uDD7E", "uDB40",
          "uDD7F", "uDB40", "uDD80", "uDB40", "uDD81", "uDB40", "uDD82",
          "uDB40", "uDD83", "uDB40", "uDD84", "uDB40", "uDD85", "uDB40",
          "uDD86", "uDB40", "uDD87", "uDB40", "uDD88", "uDB40", "uDD89",
          "uDB40", "uDD8A", "uDB40", "uDD8B", "uDB40", "uDD8C", "uDB40",
          "uDD8D", "uDB40", "uDD8E", "uDB40", "uDD8F", "uDB40", "uDD90",
          "uDB40", "uDD91", "uDB40", "uDD92", "uDB40", "uDD93", "uDB40",
          "uDD94", "uDB40", "uDD95", "uDB40", "uDD96", "uDB40", "uDD97",
          "uDB40", "uDD98", "uDB40", "uDD99", "uDB40", "uDD9A", "uDB40",
          "uDD9B", "uDB40", "uDD9C", "uDB40", "uDD9D", "uDB40", "uDD9E",
          "uDB40", "uDD9F", "uDB40", "uDDA0", "uDB40", "uDDA1", "uDB40",
          "uDDA2", "uDB40", "uDDA3", "uDB40", "uDDA4", "uDB40", "uDDA5",
          "uDB40", "uDDA6", "uDB40", "uDDA7", "uDB40", "uDDA8", "uDB40",
          "uDDA9", "uDB40", "uDDAA", "uDB40", "uDDAB", "uDB40", "uDDAC",
          "uDB40", "uDDAD", "uDB40", "uDDAE", "uDB40", "uDDAF", "uDB40",
          "uDDB0", "uDB40", "uDDB1", "uDB40", "uDDB2", "uDB40", "uDDB3",
          "uDB40", "uDDB4", "uDB40", "uDDB5", "uDB40", "uDDB6", "uDB40",
          "uDDB7", "uDB40", "uDDB8", "uDB40", "uDDB9", "uDB40", "uDDBA",
          "uDB40", "uDDBB", "uDB40", "uDDBC", "uDB40", "uDDBD", "uDB40",
          "uDDBE", "uDB40", "uDDBF", "uDB40", "uDDC0", "uDB40", "uDDC1",
          "uDB40", "uDDC2", "uDB40", "uDDC3", "uDB40", "uDDC4", "uDB40",
          "uDDC5", "uDB40", "uDDC6", "uDB40", "uDDC7", "uDB40", "uDDC8",
          "uDB40", "uDDC9", "uDB40", "uDDCA", "uDB40", "uDDCB", "uDB40",
          "uDDCC", "uDB40", "uDDCD", "uDB40", "uDDCE", "uDB40", "uDDCF",
          "uDB40", "uDDD0", "uDB40", "uDDD1", "uDB40", "uDDD2", "uDB40",
          "uDDD3", "uDB40", "uDDD4", "uDB40", "uDDD5", "uDB40", "uDDD6",
          "uDB40", "uDDD7", "uDB40", "uDDD8", "uDB40", "uDDD9", "uDB40",
          "uDDDA", "uDB40", "uDDDB", "uDB40", "uDDDC", "uDB40", "uDDDD",
          "uDB40", "uDDDE", "uDB40", "uDDDF", "uDB40", "uDDE0", "uDB40",
          "uDDE1", "uDB40", "uDDE2", "uDB40", "uDDE3", "uDB40", "uDDE4",
          "uDB40", "uDDE5", "uDB40", "uDDE6", "uDB40", "uDDE7", "uDB40",
          "uDDE8", "uDB40", "uDDE9", "uDB40", "uDDEA", "uDB40", "uDDEB",
          "uDB40", "uDDEC", "uDB40", "uDDED", "uDB40", "uDDEE", "uDB40",
          "uDDEF" >>
  IN {<<c>> : c \in bmp}
       \cup {<<astral[(2 * i) - 1], astral[2 * i]>> : i \in 1..(Len(astral) \div 2)}

\* the code points with the Cased property that are not Case_Ignorable
Cased ==
  LET bmp ==
        {
          "A", "B", "C", "D", "E", "F", "G", "H", "I", "J", "K", "L", "M",
          "N", "O", "P", "Q", "R", "S", "T", "U", "V", "W", "X", "Y", "Z",
          "a", "b", "c", "d", "e", "f", "g", "h", "i", "j", "k", "l", "m",
          "n", "o", "p", "q", "r", "s", "t", "u", "v", "w", "x", "y", "z",
          "u00AA", "u00B5", "u00BA", "u00C0", "u00C1", "u00C2", "u00C3",
          "u00C4", "u00C5", "u00C6", "u00C7", "u00C8", "u00C9", "u00CA",
          "u00CB", "u00CC", "u00CD", "u00CE", "u00CF", "u00D0", "u00D1",
          "u00D2", "u00D3", "u00D4", "u00D5", "u00D6", "u00D8", "u00D9",
          "u00DA", "u00DB", "u00DC", "u00DD", "u00DE", "u00DF", "u00E0",
          "u00E1", "u00E2", "u00E3", "u00E4", "u00E5", "u00E6", "u00E7",
          "u00E8", "u00E9", "u00EA", "u00EB", "u00EC", "u00ED", "u00EE",
          "u00EF", "u00F0", "u00F1", "u00F2", "u00F3", "u00F4", "u00F5",
          "u00F6", "u00F8", "u00F9", "u00FA", "u00FB", "u00FC", "u00FD",
          "u00FE", "u00FF", "u0100", "u0101", "u0102", "u0103", "u0104",
          "u0105", "u0106", "u0107", "u0108", "u0109", "u010A", "u010B",
          "u010C", "u010D", "u010E", "u010F", "u0110", "u0111", "u0112",
          "u0113", "u0114", "u0115", "u0116", "u0117", "u0118", "u0119",
          "u011A", "u011B", "u011C", "u011D", "u011E", "u011F", "u0120",
          "u0121", "u0122", "u0123", "u0124", "u0125", "u0126", "u0127",
          "u0128", "u0129", "u012A", "u012B", "u012C", "u012D", "u012E",
          "u012F", "u0130", "u0131", "u0132", "u0133", "u0134", "u0135",
          "u0136", "u0137", "u0138", "u0139", "u013A", "u013B", "u013C",
          "u013D", "u013E", "u013F", "u0140", "u0141", "u0142", "u0143",
          "u0144", "u0145", "u0146", "u0147", "u0148", "u0149", "u014A",
          "u014B", "u014C", "u014D", "u014E", "u014F", "u0150", "u0151",
          "u0152", "u0153", "u0154", "u0155", "u0156", "u0157", "u0158",
          "u0159", "u015A", "u015B", "u015C", "u015D", "u015E", "u015F",
          "u0160", "u0161", "u0162", "u0163", "u0164", "u0165", "u0166",
          "u0167", "u0168", "u0169", "u016A", "u016B", "u016C", "u016D",
          "u016E", "u016F", "u0170", "u0171", "u0172", "u0173", "u0174",
          "u0175", "u0176", "u0177", "u0178", "u0179", "u017A", "u017B",
          "u017C", "u017D", "u017E", "u017F", "u0180", "u0181", "u0182",
          "u0183", "u0184", "u0185", "u0186", "u0187", "u0188", "u0189",
          "u018A", "u018B", "u018C", "u018D", "u018E", "u018F", "u0190",
          "u0191", "u0192", "u0193", "u0194", "u0195", "u0196", "u0197",
          "u0198", "u0199", "u019A", "u019B", "u019C", "u019D", "u019E",
          "u019F", "u01A0", "u01A1", "u01A2", "u01A3", "u01A4", "u01A5",
          "u01A6", "u01A7", "u01A8", "u01A9", "u01AA", "u01AB", "u01AC",
          "u01AD", "u01AE", "u01AF", "u01B0", "u01B1", "u01B2", "u01B3",
          "u01B4", "u01B5", "u01B6", "u01B7", "u01B8", "u01B9", "u01BA",
          "u01BC", "u01BD", "u01BE", "u01BF", "u01C4", "u01C5", "u01C6",
          "u01C7", "u01C8", "u01C9", "u01CA", "u01CB", "u01CC", "u01CD",
          "u01CE", "u01CF", "u01D0", "u01D1", "u01D2", "u01D3", "u01D4",
          "u01D5", "u01D6", "u01D7", "u01D8", "u01D9", "u01DA", "u01DB",
          "u01DC", "u01DD", "u01DE", "u01DF", "u01E0", "u01E1", "u01E2",
          "u01E3", "u01E4", "u01E5", "u01E6", "u01E7", "u01E8", "u01E9",
          "u01EA", "u01EB", "u01EC", "u01ED", "u01EE", "u01EF", "u01F0",
          "u01F1", "u01F2", "u01F3", "u01F4", "u01F5", "u01F6", "u01F7",
          "u01F8", "u01F9", "u01FA", "u01FB", "u01FC", "u01FD", "u01FE",
          "u01FF", "u0200", "u0201", "u0202", "u0203", "u0204", "u0205",
          "u0206", "u0207", "u0208", "u0209", "u020A", "u020B", "u020C",
          "u020D", "u020E", "u020F", "u0210", "u0211", "u0212", "u0213",
          "u0214", "u0215", "u0216", "u0217", "u0218", "u0219", "u021A",
          "u021B", "u021C", "u021D", "u021E", "u021F", "u0220", "u0221",
          "u0222", "u0223", "u0224", "u0225", "u0226", "u0227", "u0228",
          "u0229", "u022A", "u022B", "u022C", "u022D", "u022E", "u022F",
          "u0230", "u0231", "u0232", "u0233", "u0234", "u0235", "u0236",
          "u0237", "u0238", "u0239", "u023A", "u023B", "u023C", "u023D",
          "u023E", "u023F", "u0240", "u0241", "u0242", "u0243", "u0244",
          "u0245", "u0246", "u0247", "u0248", "u0249", "u024A", "u024B",
          "u024C", "u024D", "u024E", "u024F", "u0250", "u0251", "u0252",
          "u0253", "u0254", "u0255", "u0256", "u0257", "u0258", "u0259",
          "u025A", "u025B", "u025C", "u025D", "u025E", "u025F", "u0260",
          "u0261", "u0262", "u0263", "u0264", "u0265", "u0266", "u0267",
          "u0268", "u0269", "u026A", "u026B", "u026C", "u026D", "u026E",
          "u026F", "u0270", "u0271", "u0272", "u0273", "u0274", "u0275",
          "u0276", "u0277", "u0278", "u0279", "u027A", "u027B", "u027C",
          "u027D", "u027E", "u027F", "u0280", "u0281", "u0282", "u0283",
          "u0284", "u0285", "u0286", "u0287", "u0288", "u0289", "u028A",
          "u028B", "u028C", "u028D", "u028E", "u028F", "u0290", "u0291",
          "u0292", "u0293", "u0296", "u0297", "u0298", "u0299", "u029A",
          "u029B", "u029C", "u029D", "u029E", "u029F", "u02A0", "u02A1",
          "u02A2", "u02A3", "u02A4", "u02A5", "u02A6", "u02A7", "u02A8",
          "u02A9", "u02AA", "u02AB", "u02AC", "u02AD", "u02AE", "u02AF",
          "u0370", "u0371", "u0372", "u0373", "u0376", "u0377", "u037B",
          "u037C", "u037D", "u037F", "u0386", "u0388", "u0389", "u038A",
          "u038C", "u038E", "u038F", "u0390", "u0391", "u0392", "u0393",
          "u0394", "u0395", "u0396", "u0397", "u0398", "u0399", "u039A",
          "u039B", "u039C", "u039D", "u039E", "u039F", "u03A0", "u03A1",
          "u03A3", "u03A4", "u03A5", "u03A6", "u03A7", "u03A8", "u03A9",
          "u03AA", "u03AB", "u03AC", "u03AD", "u03AE", "u03AF", "u03B0",
          "u03B1", "u03B2", "u03B3", "u03B4", "u03B5", "u03B6", "u03B7",
          "u03B8", "u03B9", "u03BA", "u03BB", "u03BC", "u03BD", "u03BE",
          "u03BF", "u03C0", "u03C1", "u03C2", "u03C3", "u03C4", "u03C5",
          "u03C6", "u03C7", "u03C8", "u03C9", "u03CA", "u03CB", "u03CC",
          "u03CD", "u03CE", "u03CF", "u03D0", "u03D1", "u03D2", "u03D3",
          "u03D4", "u03D5", "u03D6", "u03D7", "u03D8", "u03D9", "u03DA",
          "u03DB", "u03DC", "u03DD", "u03DE", "u03DF", "u03E0", "u03E1",
          "u03E2", "u03E3", "u03E4", "u03E5", "u03E6", "u03E7", "u03E8",
          "u03E9", "u03EA", "u03EB", "u03EC", "u03ED", "u03EE", "u03EF",
          "u03F0", "u03F1", "u03F2", "u03F3", "u03F4", "u03F5", "u03F7",
          "u03F8", "u03F9", "u03FA", "u03FB", "u03FC", "u03FD", "u03FE",
          "u03FF", "u0400", "u0401", "u0402", "u0403", "u0404", "u0405",
          "u0406", "u0407", "u0408", "u0409", "u040A", "u040B", "u040C",
          "u040D", "u040E", "u040F", "u0410", "u0411", "u0412", "u0413",
          "u0414", "u0415", "u0416", "u0417", "u0418", "u0419", "u041A",
          "u041B", "u041C", "u041D", "u041E", "u041F", "u0420", "u0421",
          "u0422", "u0423", "u0424", "u0425", "u0426", "u0427", "u0428",
          "u0429", "u042A", "u042B", "u042C", "u042D", "u042E", "u042F",
          "u0430", "u0431", "u0432", "u0433", "u0434", "u0435", "u0436",
          "u0437", "u0438", "u0439", "u043A", "u043B", "u043C", "u043D",
          "u043E", "u043F", "u0440", "u0441", "u0442", "u0443", "u0444",
          "u0445", "u0446", "u0447", "u0448", "u0449", "u044A", "u044B",
          "u044C", "u044D", "u044E", "u044F", "u0450", "u0451", "u0452",
          "u0453", "u0454", "u0455", "u0456", "u0457", "u0458", "u0459",
          "u045A", "u045B", "u045C", "u045D", "u045E", "u045F", "u0460",
          "u0461", "u0462", "u0463", "u0464", "u0465", "u0466", "u0467",
          "u0468", "u0469", "u046A", "u046B", "u046C", "u046D", "u046E",
          "u046F", "u0470", "u0471", "u0472", "u0473", "u0474", "u0475",
          "u0476", "u0477", "u0478", "u0479", "u047A", "u047B", "u047C",
          "u047D", "u047E", "u047F", "u0480", "u0481", "u048A", "u048B",
          "u048C", "u048D", "u048E", "u048F", "u0490", "u0491", "u0492",
          "u0493", "u0494", "u0495", "u0496", "u0497", "u0498", "u0499",
          "u049A", "u049B", "u049C", "u049D", "u049E", "u049F", "u04A0",
          "u04A1", "u04A2", "u04A3", "u04A4", "u04A5", "u04A6", "u04A7",
          "u04A8", "u04A9", "u04AA", "u04AB", "u04AC", "u04AD", "u04AE",
          "u04AF", "u04B0", "u04B1", "u04B2", "u04B3", "u04B4", "u04B5",
          "u04B6", "u04B7", "u04B8", "u04B9", "u04BA", "u04BB", "u04BC",
          "u04BD", "u04BE", "u04BF", "u04C0", "u04C1", "u04C2", "u04C3",
          "u04C4", "u04C5", "u04C6", "u04C7", "u04C8", "u04C9", "u04CA",
          "u04CB", "u04CC", "u04CD", "u04CE", "u04CF", "u04D0", "u04D1",
          "u04D2", "u04D3", "u04D4", "u04D5", "u04D6", "u04D7", "u04D8",
          "u04D9", "u04DA", "u04DB", "u04DC", "u04DD", "u04DE", "u04DF",
          "u04E0", "u04E1", "u04E2", "u04E3", "u04E4", "u04E5", "u04E6",
          "u04E7", "u04E8", "u04E9", "u04EA", "u04EB", "u04EC", "u04ED",
          "u04EE", "u04EF", "u04F0", "u04F1", "u04F2", "u04F3", "u04F4",
          "u04F5", "u04F6", "u04F7", "u04F8", "u04F9", "u04FA", "u04FB",
          "u04FC", "u04FD", "u04FE", "u04FF", "u0500", "u0501", "u0502",
          "u0503", "u0504", "u0505", "u0506", "u0507", "u0508", "u0509",
          "u050A", "u050B", "u050C", "u050D", "u050E", "u050F", "u0510",
          "u0511", "u0512", "u0513", "u0514", "u0515", "u0516", "u0517",
          "u0518", "u0519", "u051A", "u051B", "u051C", "u051D", "u051E",
          "u051F", "u0520", "u0521", "u0522", "u0523", "u0524", "u0525",
          "u0526", "u0527", "u0528", "u0529", "u052A", "u052B", "u052C",
          "u052D", "u052E", "u052F", "u0531", "u0532", "u0533", "u0534",
          "u0535", "u0536", "u0537", "u0538", "u0539", "u053A", "u053B",
          "u053C", "u053D", "u053E", "u053F", "u0540", "u0541", "u0542",
          "u0543", "u0544", "u0545", "u0546", "u0547", "u0548", "u0549",
          "u054A", "u054B", "u054C", "u054D", "u054E", "u054F", "u0550",
          "u0551", "u0552", "u0553", "u0554", "u0555", "u0556", "u0560",
          "u0561", "u0562", "u0563", "u0564", "u0565", "u0566", "u0567",
          "u0568", "u0569", "u056A", "u056B", "u056C", "u056D", "u056E",
          "u056F", "u0570", "u0571", "u0572", "u0573", "u0574", "u0575",
          "u0576", "u0577", "u0578", "u0579", "u057A", "u057B", "u057C",
          "u057D", "u057E", "u057F", "u0580", "u0581", "u0582", "u0583",
          "u0584", "u0585", "u0586", "u0587", "u0588", "u10A0", "u10A1",
          "u10A2", "u10A3", "u10A4", "u10A5", "u10A6", "u10A7", "u10A8",
          "u10A9", "u10AA", "u10AB", "u10AC", "u10AD", "u10AE", "u10AF",
          "u10B0", "u10B1", "u10B2", "u10B3", "u10B4", "u10B5", "u10B6",
          "u10B7", "u10B8", "u10B9", "u10BA", "u10BB", "u10BC", "u10BD",
          "u10BE", "u10BF", "u10C0", "u10C1", "u10C2", "u10C3", "u10C4",
          "u10C5", "u10C7", "u10CD", "u10D0", "u10D1", "u10D2", "u10D3",
          "u10D4", "u10D5", "u10D6", "u10D7", "u10D8", "u10D9", "u10DA",
          "u10DB", "u10DC", "u10DD", "u10DE", "u10DF", "u10E0", "u10E1",
          "u10E2", "u10E3", "u10E4", "u10E5", "u10E6", "u10E7", "u10E8",
          "u10E9", "u10EA", "u10EB", "u10EC", "u10ED", "u10EE", "u10EF",
          "u10F0", "u10F1", "u10F2", "u10F3", "u10F4", "u10F5", "u10F6",
          "u10F7", "u10F8", "u10F9", "u10FA", "u10FD", "u10FE", "u10FF",
          "u13A0", "u13A1", "u13A2", "u13A3", "u13A4", "u13A5", "u13A6",
          "u13A7", "u13A8", "u13A9", "u13AA", "u13AB", "u13AC", "u13AD",
          "u13AE", "u13AF", "u13B0", "u13B1", "u13B2", "u13B3", "u13B4",
          "u13B5", "u13B6", "u13B7", "u13B8", "u13B9", "u13BA", "u13BB",
          "u13BC", "u13BD", "u13BE", "u13BF", "u13C0", "u13C1", "u13C2",
          "u13C3", "u13C4", "u13C5", "u13C6", "u13C7", "u13C8", "u13C9",
          "u13CA", "u13CB", "u13CC", "u13CD", "u13CE", "u13CF", "u13D0",
          "u13D1", "u13D2", "u13D3", "u13D4", "u13D5", "u13D6", "u13D7",
          "u13D8", "u13D9", "u13DA", "u13DB", "u13DC", "u13DD", "u13DE",
          "u13DF", "u13E0", "u13E1", "u13E2", "u13E3", "u13E4", "u13E5",
          "u13E6", "u13E7", "u13E8", "u13E9", "u13EA", "u13EB", "u13EC",
          "u13ED", "u13EE", "u13EF", "u13F0", "u13F1", "u13F2", "u13F3",
          "u13F4", "u13F5", "u13F8", "u13F9", "u13FA", "u13FB", "u13FC",
          "u13FD", "u1C80", "u1C81", "u1C82", "u1C83", "u1C84", "u1C85",
          "u1C86", "u1C87", "u1C88", "u1C89", "u1C8A", "u1C90", "u1C91",
          "u1C92", "u1C93", "u1C94", "u1C95", "u1C96", "u1C97", "u1C98",
          "u1C99", "u1C9A", "u1C9B", "u1C9C", "u1C9D", "u1C9E", "u1C9F",
          "u1CA0", "u1CA1", "u1CA2", "u1CA3", "u1CA4", "u1CA5", "u1CA6",
          "u1CA7", "u1CA8", "u1CA9", "u1CAA", "u1CAB", "u1CAC", "u1CAD",
          "u1CAE", "u1CAF", "u1CB0", "u1CB1", "u1CB2", "u1CB3", "u1CB4",
          "u1CB5", "u1CB6", "u1CB7", "u1CB8", "u1CB9", "u1CBA", "u1CBD",
          "u1CBE", "u1CBF", "u1D00", "u1D01", "u1D02", "u1D03", "u1D04",
          "u1D05", "u1D06", "u1D07", "u1D08", "u1D09", "u1D0A", "u1D0B",
          "u1D0C", "u1D0D", "u1D0E", "u1D0F", "u1D10", "u1D11", "u1D12",
          "u1D13", "u1D14", "u1D15", "u1D16", "u1D17", "u1D18", "u1D19",
          "u1D1A", "u1D1B", "u1D1C", "u1D1D", "u1D1E", "u1D1F", "u1D20",
          "u1D21", "u1D22", "u1D23", "u1D24", "u1D25", "u1D26", "u1D27",
          "u1D28", "u1D29", "u1D2A", "u1D2B", "u1D6B", "u1D6C", "u1D6D",
          "u1D6E", "u1D6F", "u1D70", "u1D71", "u1D72", "u1D73", "u1D74",
          "u1D75", "u1D76", "u1D77", "u1D79", "u1D7A", "u1D7B", "u1D7C",
          "u1D7D", "u1D7E", "u1D7F", "u1D80", "u1D81", "u1D82", "u1D83",
          "u1D84", "u1D85", "u1D86", "u1D87", "u1D88", "u1D89", "u1D8A",
          "u1D8B", "u1D8C", "u1D8D", "u1D8E", "u1D8F", "u1D90", "u1D91",
          "u1D92", "u1D93", "u1D94", "u1D95", "u1D96", "u1D97", "u1D98",
          "u1D99", "u1D9A", "u1E00", "u1E01", "u1E02", "u1E03", "u1E04",
          "u1E05", "u1E06", "u1E07", "u1E08", "u1E09", "u1E0A", "u1E0B",
          "u1E0C", "u1E0D", "u1E0E", "u1E0F", "u1E10", "u1E11", "u1E12",
          "u1E13", "u1E14", "u1E15", "u1E16", "u1E17", "u1E18", "u1E19",
          "u1E1A", "u1E1B", "u1E1C", "u1E1D", "u1E1E", "u1E1F", "u1E20",
          "u1E21", "u1E22", "u1E23", "u1E24", "u1E25", "u1E26", "u1E27",
          "u1E28", "u1E29", "u1E2A", "u1E2B", "u1E2C", "u1E2D", "u1E2E",
          "u1E2F", "u1E30", "u1E31", "u1E32", "u1E33", "u1E34", "u1E35",
          "u1E36", "u1E37", "u1E38", "u1E39", "u1E3A", "u1E3B", "u1E3C",
          "u1E3D", "u1E3E", "u1E3F", "u1E40", "u1E41", "u1E42", "u1E43",
          "u1E44", "u1E45", "u1E46", "u1E47", "u1E48", "u1E49", "u1E4A",
          "u1E4B", "u1E4C", "u1E4D", "u1E4E", "u1E4F", "u1E50", "u1E51",
          "u1E52", "u1E53", "u1E54", "u1E55", "u1E56", "u1E57", "u1E58",
          "u1E59", "u1E5A", "u1E5B", "u1E5C", "u1E5D", "u1E5E", "u1E5F",
          "u1E60", "u1E61", "u1E62", "u1E63", "u1E64", "u1E65", "u1E66",
          "u1E67", "u1E68", "u1E69", "u1E6A", "u1E6B", "u1E6C", "u1E6D",
          "u1E6E", "u1E6F", "u1E70", "u1E71", "u1E72", "u1E73", "u1E74",
          "u1E75", "u1E76", "u1E77", "u1E78", "u1E79", "u1E7A", "u1E7B",
          "u1E7C", "u1E7D", "u1E7E", "u1E7F", "u1E80", "u1E81", "u1E82",
          "u1E83", "u1E84", "u1E85", "u1E86", "u1E87", "u1E88", "u1E89",
          "u1E8A", "u1E8B", "u1E8C", "u1E8D", "u1E8E", "u1E8F", "u1E90",
          "u1E91", "u1E92", "u1E93", "u1E94", "u1E95", "u1E96", "u1E97",
          "u1E98", "u1E99", "u1E9A", "u1E9B", "u1E9C", "u1E9D", "u1E9E",
          "u1E9F", "u1EA0", "u1EA1", "u1EA2", "u1EA3", "u1EA4", "u1EA5",
          "u1EA6", "u1EA7", "u1EA8", "u1EA9", "u1EAA", "u1EAB", "u1EAC",
          "u1EAD", "u1EAE", "u1EAF", "u1EB0", "u1EB1", "u1EB2", "u1EB3",
          "u1EB4", "u1EB5", "u1EB6", "u1EB7", "u1EB8", "u1EB9", "u1EBA",
          "u1EBB", "u1EBC", "u1EBD", "u1EBE", "u1EBF", "u1EC0", "u1EC1",
          "u1EC2", "u1EC3", "u1EC4", "u1EC5", "u1EC6", "u1EC7", "u1EC8",
          "u1EC9", "u1ECA", "u1ECB", "u1ECC", "u1ECD", "u1ECE", "u1ECF",
          "u1ED0", "u1ED1", "u1ED2", "u1ED3", "u1ED4", "u1ED5", "u1ED6",
          "u1ED7", "u1ED8", "u1ED9", "u1EDA", "u1EDB", "u1EDC", "u1EDD",
          "u1EDE", "u1EDF", "u1EE0", "u1EE1", "u1EE2", "u1EE3", "u1EE4",
          "u1EE5", "u1EE6", "u1EE7", "u1EE8", "u1EE9", "u1EEA", "u1EEB",
          "u1EEC", "u1EED", "u1EEE", "u1EEF", "u1EF0", "u1EF1", "u1EF2",
          "u1EF3", "u1EF4", "u1EF5", "u1EF6", "u1EF7", "u1EF8", "u1EF9",
          "u1EFA", "u1EFB", "u1EFC", "u1EFD", "u1EFE", "u1EFF", "u1F00",
          "u1F01", "u1F02", "u1F03", "u1F04", "u1F05", "u1F06", "u1F07",
          "u1F08", "u1F09", "u1F0A", "u1F0B", "u1F0C", "u1F0D", "u1F0E",
          "u1F0F", "u1F10", "u1F11", "u1F12", "u1F13", "u1F14", "u1F15",
          "u1F18", "u1F19", "u1F1A", "u1F1B", "u1F1C", "u1F1D", "u1F20",
          "u1F21", "u1F22", "u1F23", "u1F24", "u1F25", "u1F26", "u1F27",
          "u1F28", "u1F29", "u1F2A", "u1F2B", "u1F2C", "u1F2D", "u1F2E",
          "u1F2F", "u1F30", "u1F31", "u1F32", "u1F33", "u1F34", "u1F35",
          "u1F36", "u1F37", "u1F38", "u1F39", "u1F3A", "u1F3B", "u1F3C",
          "u1F3D", "u1F3E", "u1F3F", "u1F40", "u1F41", "u1F42", "u1F43",
          "u1F44", "u1F45", "u1F48", "u1F49", "u1F4A", "u1F4B", "u1F4C",
          "u1F4D", "u1F50", "u1F51", "u1F52", "u1F53", "u1F54", "u1F55",
          "u1F56", "u1F57", "u1F59", "u1F5B", "u1F5D", "u1F5F", "u1F60",
          "u1F61", "u1F62", "u1F63", "u1F64", "u1F65", "u1F66", "u1F67",
          "u1F68", "u1F69", "u1F6A", "u1F6B", "u1F6C", "u1F6D", "u1F6E",
          "u1F6F", "u1F70", "u1F71", "u1F72", "u1F73", "u1F74", "u1F75",
          "u1F76", "u1F77", "u1F78", "u1F79", "u1F7A", "u1F7B", "u1F7C",
          "u1F7D", "u1F80", "u1F81", "u1F82", "u1F83", "u1F84", "u1F85",
          "u1F86", "u1F87", "u1F88", "u1F89", "u1F8A", "u1F8B", "u1F8C",
          "u1F8D", "u1F8E", "u1F8F", "u1F90", "u1F91", "u1F92", "u1F93",
          "u1F94", "u1F95", "u1F96", "u1F97", "u1F98", "u1F99", "u1F9A",
          "u1F9B", "u1F9C", "u1F9D", "u1F9E", "u1F9F", "u1FA0", "u1FA1",
          "u1FA2", "u1FA3", "u1FA4", "u1FA5", "u1FA6", "u1FA7", "u1FA8",
          "u1FA9", "u1FAA", "u1FAB", "u1FAC", "u1FAD", "u1FAE", "u1FAF",
          "u1FB0", "u1FB1", "u1FB2", "u1FB3", "u1FB4", "u1FB6", "u1FB7",
          "u1FB8", "u1FB9", "u1FBA", "u1FBB", "u1FBC", "u1FBE", "u1FC2",
          "u1FC3", "u1FC4", "u1FC6", "u1FC7", "u1FC8", "u1FC9", "u1FCA",
          "u1FCB", "u1FCC", "u1FD0", "u1FD1", "u1FD2", "u1FD3", "u1FD6",
          "u1FD7", "u1FD8", "u1FD9", "u1FDA", "u1FDB", "u1FE0", "u1FE1",
          "u1FE2", "u1FE3", "u1FE4", "u1FE5", "u1FE6", "u1FE7", "u1FE8",
          "u1FE9", "u1FEA", "u1FEB", "u1FEC", "u1FF2", "u1FF3", "u1FF4",
          "u1FF6", "u1FF7", "u1FF8", "u1FF9", "u1FFA", "u1FFB", "u1FFC",
          "u2102", "u2107", "u210A", "u210B", "u210C", "u210D", "u210E",
          "u210F", "u2110", "u2111", "u2112", "u2113", "u2115", "u2119",
          "u211A", "u211B", "u211C", "u211D", "u2124", "u2126", "u2128",
          "u212A", "u212B", "u212C", "u212D", "u212F", "u2130", "u2131",
          "u2132", "u2133", "u2134", "u2139", "u213C", "u213D", "u213E",
          "u213F", "u2145", "u2146", "u2147", "u2148", "u2149", "u214E",
          "u2160", "u2161", "u2162", "u2163", "u2164", "u2165", "u2166",
          "u2167", "u2168", "u2169", "u216A", "u216B", "u216C", "u216D",
          "u216E", "u216F", "u2170", "u2171", "u2172", "u2173", "u2174",
          "u2175", "u2176", "u2177", "u2178", "u2179", "u217A", "u217B",
          "u217C", "u217D", "u217E", "u217F", "u2183", "u2184", "u24B6",
          "u24B7", "u24B8", "u24B9", "u24BA", "u24BB", "u24BC", "u24BD",
          "u24BE", "u24BF", "u24C0", "u24C1", "u24C2", "u24C3", "u24C4",
          "u24C5", "u24C6", "u24C7", "u24C8", "u24C9", "u24CA", "u24CB",
          "u24CC", "u24CD", "u24CE", "u24CF", "u24D0", "u24D1", "u24D2",
          "u24D3", "u24D4", "u24D5", "u24D6", "u24D7", "u24D8", "u24D9",
          "u24DA", "u24DB", "u24DC", "u24DD", "u24DE", "u24DF", "u24E0",
          "u24E1", "u24E2", "u24E3", "u24E4", "u24E5", "u24E6", "u24E7",
          "u24E8", "u24E9", "u2C00", "u2C01", "u2C02", "u2C03", "u2C04",
          "u2C05", "u2C06", "u2C07", "u2C08", "u2C09", "u2C0A", "u2C0B",
          "u2C0C", "u2C0D", "u2C0E", "u2C0F", "u2C10", "u2C11", "u2C12",
          "u2C13", "u2C14", "u2C15", "u2C16", "u2C17", "u2C18", "u2C19",
          "u2C1A", "u2C1B", "u2C1C", "u2C1D", "u2C1E", "u2C1F", "u2C20",
          "u2C21", "u2C22", "u2C23", "u2C24", "u2C25", "u2C26", "u2C27",
          "u2C28", "u2C29", "u2C2A", "u2C2B", "u2C2C", "u2C2D", "u2C2E",
          "u2C2F", "u2C30", "u2C31", "u2C32", "u2C33", "u2C34", "u2C35",
          "u2C36", "u2C37", "u2C38", "u2C39", "u2C3A", "u2C3B", "u2C3C",
          "u2C3D", "u2C3E", "u2C3F", "u2C40", "u2C41", "u2C42", "u2C43",
          "u2C44", "u2C45", "u2C46", "u2C47", "u2C48", "u2C49", "u2C4A",
          "u2C4B", "u2C4C", "u2C4D", "u2C4E", "u2C4F", "u2C50", "u2C51",
          "u2C52", "u2C53", "u2C54", "u2C55", "u2C56", "u2C57", "u2C58",
          "u2C59", "u2C5A", "u2C5B", "u2C5C", "u2C5D", "u2C5E", "u2C5F",
          "u2C60", "u2C61", "u2C62", "u2C63", "u2C64", "u2C65", "u2C66",
          "u2C67", "u2C68", "u2C69", "u2C6A", "u2C6B", "u2C6C", "u2C6D",
          "u2C6E", "u2C6F", "u2C70", "u2C71", "u2C72", "u2C73", "u2C74",
          "u2C75", "u2C76", "u2C77", "u2C78", "u2C79", "u2C7A", "u2C7B",
          "u2C7E", "u2C7F", "u2C80", "u2C81", "u2C82", "u2C83", "u2C84",
          "u2C85", "u2C86", "u2C87", "u2C88", "u2C89", "u2C8A", "u2C8B",
          "u2C8C", "u2C8D", "u2C8E", "u2C8F", "u2C90", "u2C91", "u2C92",
          "u2C93", "u2C94", "u2C95", "u2C96", "u2C97", "u2C98", "u2C99",
          "u2C9A", "u2C9B", "u2C9C", "u2C9D", "u2C9E", "u2C9F", "u2CA0",
          "u2CA1", "u2CA2", "u2CA3", "u2CA4", "u2CA5", "u2CA6", "u2CA7",
          "u2CA8", "u2CA9", "u2CAA", "u2CAB", "u2CAC", "u2CAD", "u2CAE",
          "u2CAF", "u2CB0", "u2CB1", "u2CB2", "u2CB3", "u2CB4", "u2CB5",
          "u2CB6", "u2CB7", "u2CB8", "u2CB9", "u2CBA", "u2CBB", "u2CBC",
          "u2CBD", "u2CBE", "u2CBF", "u2CC0", "u2CC1", "u2CC2", "u2CC3",
          "u2CC4", "u2CC5", "u2CC6", "u2CC7", "u2CC8", "u2CC9", "u2CCA",
          "u2CCB", "u2CCC", "u2CCD", "u2CCE", "u2CCF", "u2CD0", "u2CD1",
          "u2CD2", "u2CD3", "u2CD4", "u2CD5", "u2CD6", "u2CD7", "u2CD8",
          "u2CD9", "u2CDA", "u2CDB", "u2CDC", "u2CDD", "u2CDE", "u2CDF",
          "u2CE0", "u2CE1", "u2CE2", "u2CE3", "u2CE4", "u2CEB", "u2CEC",
          "u2CED", "u2CEE", "u2CF2", "u2CF3", "u2D00", "u2D01", "u2D02",
          "u2D03", "u2D04", "u2D05", "u2D06", "u2D07", "u2D08", "u2D09",
          "u2D0A", "u2D0B", "u2D0C", "u2D0D", "u2D0E", "u2D0F", "u2D10",
          "u2D11", "u2D12", "u2D13", "u2D14", "u2D15", "u2D16", "u2D17",
          "u2D18", "u2D19", "u2D1A", "u2D1B", "u2D1C", "u2D1D", "u2D1E",
          "u2D1F", "u2D20", "u2D21", "u2D22", "u2D23", "u2D24", "u2D25",
          "u2D27", "u2D2D", "uA640", "uA641", "uA642", "uA643", "uA644",
          "uA645", "uA646", "uA647", "uA648", "uA649", "uA64A", "uA64B",
          "uA64C", "uA64D", "uA64E", "uA64F", "uA650", "uA651", "uA652",
          "uA653", "uA654", "uA655", "uA656", "uA657", "uA658", "uA659",
          "uA65A", "uA65B", "uA65C", "uA65D", "uA65E", "uA65F", "uA660",
          "uA661", "uA662", "uA663", "uA664", "uA665", "uA666", "uA667",
          "uA668", "uA669", "uA66A", "uA66B", "uA66C", "uA66D", "uA680",
          "uA681", "uA682", "uA683", "uA684", "uA685", "uA686", "uA687",
          "uA688", "uA689", "uA68A", "uA68B", "uA68C", "uA68D", "uA68E",
          "uA68F", "uA690", "uA691", "uA692", "uA693", "uA694", "uA695",
          "uA696", "uA697", "uA698", "uA699", "uA69A", "uA69B", "uA722",
          "uA723", "uA724", "uA725", "uA726", "uA727", "uA728", "uA729",
          "uA72A", "uA72B", "uA72C", "uA72D", "uA72E", "uA72F", "uA730",
          "uA731", "uA732", "uA733", "uA734", "uA735", "uA736", "uA737",
          "uA738", "uA739", "uA73A", "uA73B", "uA73C", "uA73D", "uA73E",
          "uA73F", "uA740", "uA741", "uA742", "uA743", "uA744", "uA745",
          "uA746", "uA747", "uA748", "uA749", "uA74A", "uA74B", "uA74C",
          "uA74D", "uA74E", "uA74F", "uA750", "uA751", "uA752", "uA753",
          "uA754", "uA755", "uA756", "uA757", "uA758", "uA759", "uA75A",
          "uA75B", "uA75C", "uA75D", "uA75E", "uA75F", "uA760", "uA761",
          "uA762", "uA763", "uA764", "uA765", "uA766", "uA767", "uA768",
          "uA769", "uA76A", "uA76B", "uA76C", "uA76D", "uA76E", "uA76F",
          "uA771", "uA772", "uA773", "uA774", "uA775", "uA776", "uA777",
          "uA778", "uA779", "uA77A", "uA77B", "uA77C", "uA77D", "uA77E",
          "uA77F", "uA780", "uA781", "uA782", "uA783", "uA784", "uA785",
          "uA786", "uA787", "uA78B", "uA78C", "uA78D", "uA78E", "uA790",
          "uA791", "uA792", "uA793", "uA794", "uA795", "uA796", "uA797",
          "uA798", "uA799", "uA79A", "uA79B", "uA79C", "uA79D", "uA79E",
          "uA79F", "uA7A0", "uA7A1", "uA7A2", "uA7A3", "uA7A4", "uA7A5",
          "uA7A6", "uA7A7", "uA7A8", "uA7A9", "uA7AA", "uA7AB", "uA7AC",
          "uA7AD", "uA7AE", "uA7AF", "uA7B0", "uA7B1", "uA7B2", "uA7B3",
          "uA7B4", "uA7B5", "uA7B6", "uA7B7", "uA7B8", "uA7B9", "uA7BA",
          "uA7BB", "uA7BC", "uA7BD", "uA7BE", "uA7BF", "uA7C0", "uA7C1",
          "uA7C2", "uA7C3", "uA7C4", "uA7C5", "uA7C6", "uA7C7", "uA7C8",
          "uA7C9", "uA7CA", "uA7CB", "uA7CC", "uA7CD", "uA7CE", "uA7CF",
          "uA7D0", "uA7D1", "uA7D2", "uA7D3", "uA7D4", "uA7D5", "uA7D6",
          "uA7D7", "uA7D8", "uA7D9", "uA7DA", "uA7DB", "uA7DC", "uA7F5",
          "uA7F6", "uA7FA", "uAB30", "uAB31", "uAB32", "uAB33", "uAB34",
          "uAB35", "uAB36", "uAB37", "uAB38", "uAB39", "uAB3A", "uAB3B",
          "uAB3C", "uAB3D", "uAB3E", "uAB3F", "uAB40", "uAB41", "uAB42",
          "uAB43", "uAB44", "uAB45", "uAB46", "uAB47", "uAB48", "uAB49",
          "uAB4A", "uAB4B", "uAB4C", "uAB4D", "uAB4E", "uAB4F", "uAB50",
          "uAB51", "uAB52", "uAB53", "uAB54", "uAB55", "uAB56", "uAB57",
          "uAB58", "uAB59", "uAB5A", "uAB60", "uAB61", "uAB62", "uAB63",
          "uAB64", "uAB65", "uAB66", "uAB67", "uAB68", "uAB70", "uAB71",
          "uAB72", "uAB73", "uAB74", "uAB75", "uAB76", "uAB77", "uAB78",
          "uAB79", "uAB7A", "uAB7B", "uAB7C", "uAB7D", "uAB7E", "uAB7F",
          "uAB80", "uAB81", "uAB82", "uAB83", "uAB84", "uAB85", "uAB86",
          "uAB87", "uAB88", "uAB89", "uAB8A", "uAB8B", "uAB8C", "uAB8D",
          "uAB8E", "uAB8F", "uAB90", "uAB91", "uAB92", "uAB93", "uAB94",
          "uAB95", "uAB96", "uAB97", "uAB98", "uAB99", "uAB9A", "uAB9B",
          "uAB9C", "uAB9D", "uAB9E", "uAB9F", "uABA0", "uABA1", "uABA2",
          "uABA3", "uABA4", "uABA5", "uABA6", "uABA7", "uABA8", "uABA9",
          "uABAA", "uABAB", "uABAC", "uABAD", "uABAE", "uABAF", "uABB0",
          "uABB1", "uABB2", "uABB3", "uABB4", "uABB5", "uABB6", "uABB7",
          "uABB8", "uABB9", "uABBA", "uABBB", "uABBC", "uABBD", "uABBE",
          "uABBF", "uFB00", "uFB01", "uFB02", "uFB03", "uFB04", "uFB05",
          "uFB06", "uFB13", "uFB14", "uFB15", "uFB16", "uFB17", "uFF21",
          "uFF22", "uFF23", "uFF24", "uFF25", "uFF26", "uFF27", "uFF28",
          "uFF29", "uFF2A", "uFF2B", "uFF2C", "uFF2D", "uFF2E", "uFF2F",
          "uFF30", "uFF31", "uFF32", "uFF33", "uFF34", "uFF35", "uFF36",
          "uFF37", "uFF38", "uFF39", "uFF3A", "uFF41", "uFF42", "uFF43",
          "uFF44", "uFF45", "uFF46", "uFF47", "uFF48", "uFF49", "uFF4A",
          "uFF4B", "uFF4C", "uFF4D", "uFF4E", "uFF4F", "uFF50", "uFF51",
          "uFF52", "uFF53", "uFF54", "uFF55", "uFF56", "uFF57", "uFF58",
          "uFF59", "uFF5A" }
      astral ==
        <<
          "uD801", "uDC00", "uD801", "uDC01", "uD801", "uDC02", "uD801",
          "uDC03", "uD801", "uDC04", "uD801", "uDC05", "uD801", "uDC06",
          "uD801", "uDC07", "uD801", "uDC08", "uD801", "uDC09", "uD801",
          "uDC0A", "uD801", "uDC0B", "uD801", "uDC0C", "uD801", "uDC0D",
          "uD801", "uDC0E", "uD801", "uDC0F", "uD801", "uDC10", "uD801",
          "uDC11", "uD801", "uDC12", "uD801", "uDC13", "uD801", "uDC14",
          "uD801", "uDC15", "uD801", "uDC16", "uD801", "uDC17", "uD801",
          "uDC18", "uD801", "uDC19", "uD801", "uDC1A", "uD801", "uDC1B",
          "uD801", "uDC1C", "uD801", "uDC1D", "uD801", "uDC1E", "uD801",
          "uDC1F", "uD801", "uDC20", "uD801", "uDC21", "uD801", "uDC22",
          "uD801", "uDC23", "uD801", "uDC24", "uD801", "uDC25", "uD801",
          "uDC26", "uD801", "uDC27", "uD801", "uDC28", "uD801", "uDC29",
          "uD801", "uDC2A", "uD801", "uDC2B", "uD801", "uDC2C", "uD801",
          "uDC2D", "uD801", "uDC2E", "uD801", "uDC2F", "uD801", "uDC30",
          "uD801", "uDC31", "uD801", "uDC32", "uD801", "uDC33", "uD801",
          "uDC34", "uD801", "uDC35", "uD801", "uDC36", "uD801", "uDC37",
          "uD801", "uDC38", "uD801", "uDC39", "uD801", "uDC3A", "uD801",
          "uDC3B", "uD801", "uDC3C", "uD801", "uDC3D", "uD801", "uDC3E",
          "uD801", "uDC3F", "uD801", "uDC40", "uD801", "uDC41", "uD801",
          "uDC42", "uD801", "uDC43", "uD801", "uDC44", "uD801", "uDC45",
          "uD801", "uDC46", "uD801", "uDC47", "uD801", "uDC48", "uD801",
          "uDC49", "uD801", "uDC4A", "uD801", "uDC4B", "uD801", "uDC4C",
          "uD801", "uDC4D", "uD801", "uDC4E", "uD801", "uDC4F", "uD801",
          "uDCB0", "uD801", "uDCB1", "uD801", "uDCB2", "uD801", "uDCB3",
          "uD801", "uDCB4", "uD801", "uDCB5", "uD801", "uDCB6", "uD801",
          "uDCB7", "uD801", "uDCB8", "uD801", "uDCB9", "uD801", "uDCBA",
          "uD801", "uDCBB", "uD801", "uDCBC", "uD801", "uDCBD", "uD801",
          "uDCBE", "uD801", "uDCBF", "uD801", "uDCC0", "uD801", "uDCC1",
          "uD801", "uDCC2", "uD801", "uDCC3", "uD801", "uDCC4", "uD801",
          "uDCC5", "uD801", "uDCC6", "uD801", "uDCC7", "uD801", "uDCC8",
          "uD801", "uDCC9", "uD801", "uDCCA", "uD801", "uDCCB", "uD801",
          "uDCCC", "uD801", "uDCCD", "uD801", "uDCCE", "uD801", "uDCCF",
          "uD801", "uDCD0", "uD801", "uDCD1", "uD801", "uDCD2", "uD801",
          "uDCD3", "uD801", "uDCD8", "uD801", "uDCD9", "uD801", "uDCDA",
          "uD801", "uDCDB", "uD801", "uDCDC", "uD801", "uDCDD", "uD801",
          "uDCDE", "uD801", "uDCDF", "uD801", "uDCE0", "uD801", "uDCE1",
          "uD801", "uDCE2", "uD801", "uDCE3", "uD801", "uDCE4", "uD801",
          "uDCE5", "uD801", "uDCE6", "uD801", "uDCE7", "uD801", "uDCE8",
          "uD801", "uDCE9", "uD801", "uDCEA", "uD801", "uDCEB", "uD801",
          "uDCEC", "uD801", "uDCED", "uD801", "uDCEE", "uD801", "uDCEF",
          "uD801", "uDCF0", "uD801", "uDCF1", "uD801", "uDCF2", "uD801",
          "uDCF3", "uD801", "uDCF4", "uD801", "uDCF5", "uD801", "uDCF6",
          "uD801", "uDCF7", "uD801", "uDCF8", "uD801", "uDCF9", "uD801",
          "uDCFA", "uD801", "uDCFB", "uD801", "uDD70", "uD801", "uDD71",
          "uD801", "uDD72", "uD801", "uDD73", "uD801", "uDD74", "uD801",
          "uDD75", "uD801", "uDD76", "uD801", "uDD77", "uD801", "uDD78",
          "uD801", "uDD79", "uD801", "uDD7A", "uD801", "uDD7C", "uD801",
          "uDD7D", "uD801", "uDD7E", "uD801", "uDD7F", "uD801", "uDD80",
          "uD801", "uDD81", "uD801", "uDD82", "uD801", "uDD83", "uD801",
          "uDD84", "uD801", "uDD85", "uD801", "uDD86", "uD801", "uDD87",
          "uD801", "uDD88", "uD801", "uDD89", "uD801", "uDD8A", "uD801",
          "uDD8C", "uD801", "uDD8D", "uD801", "uDD8E", "uD801", "uDD8F",
          "uD801", "uDD90", "uD801", "uDD91", "uD801", "uDD92", "uD801",
          "uDD94", "uD801", "uDD95", "uD801", "uDD97", "uD801", "uDD98",
          "uD801", "uDD99", "uD801", "uDD9A", "uD801", "uDD9B", "uD801",
          "uDD9C", "uD801", "uDD9D", "uD801", "uDD9E", "uD801", "uDD9F",
          "uD801", "uDDA0", "uD801", "uDDA1", "uD801", "uDDA3", "uD801",
          "uDDA4", "uD801", "uDDA5", "uD801", "uDDA6", "uD801", "uDDA7",
          "uD801", "uDDA8", "uD801", "uDDA9", "uD801", "uDDAA", "uD801",
          "uDDAB", "uD801", "uDDAC", "uD801", "uDDAD", "uD801", "uDDAE",
          "uD801", "uDDAF", "uD801", "uDDB0", "uD801", "uDDB1", "uD801",
          "uDDB3", "uD801", "uDDB4", "uD801", "uDDB5", "uD801", "uDDB6",
          "uD801", "uDDB7", "uD801", "uDDB8", "uD801", "uDDB9", "uD801",
          "uDDBB", "uD801", "uDDBC", "uD803", "uDC80", "uD803", "uDC81",
          "uD803", "uDC82", "uD803", "uDC83", "uD803", "uDC84", "uD803",
          "uDC85", "uD803", "uDC86", "uD803", "uDC87", "uD803", "uDC88",
          "uD803", "uDC89", "uD803", "uDC8A", "uD803", "uDC8B", "uD803",
          "uDC8C", "uD803", "uDC8D", "uD803", "uDC8E", "uD803", "uDC8F",
          "uD803", "uDC90", "uD803", "uDC91", "uD803", "uDC92", "uD803",
          "uDC93", "uD803", "uDC94", "uD803", "uDC95", "uD803", "uDC96",
          "uD803", "uDC97", "uD803", "uDC98", "uD803", "uDC99", "uD803",
          "uDC9A", "uD803", "uDC9B", "uD803", "uDC9C", "uD803", "uDC9D",
          "uD803", "uDC9E", "uD803", "uDC9F", "uD803", "uDCA0", "uD803",
          "uDCA1", "uD803", "uDCA2", "uD803", "uDCA3", "uD803", "uDCA4",
          "uD803", "uDCA5", "uD803", "uDCA6", "uD803", "uDCA7", "uD803",
          "uDCA8", "uD803", "uDCA9", "uD803", "uDCAA", "uD803", "uDCAB",
          "uD803", "uDCAC", "uD803", "uDCAD", "uD803", "uDCAE", "uD803",
          "uDCAF", "uD803", "uDCB0", "uD803", "uDCB1", "uD803", "uDCB2",
          "uD803", "uDCC0", "uD803", "uDCC1", "uD803", "uDCC2", "uD803",
          "uDCC3", "uD803", "uDCC4", "uD803", "uDCC5", "uD803", "uDCC6",
          "uD803", "uDCC7", "uD803", "uDCC8", "uD803", "uDCC9", "uD803",
          "uDCCA", "uD803", "uDCCB", "uD803", "uDCCC", "uD803", "uDCCD",
          "uD803", "uDCCE", "uD803", "uDCCF", "uD803", "uDCD0", "uD803",
          "uDCD1", "uD803", "uDCD2", "uD803", "uDCD3", "uD803", "uDCD4",
          "uD803", "uDCD5", "uD803", "uDCD6", "uD803", "uDCD7", "uD803",
          "uDCD8", "uD803", "uDCD9", "uD803", "uDCDA", "uD803", "uDCDB",
          "uD803", "uDCDC", "uD803", "uDCDD", "uD803", "uDCDE", "uD803",
          "uDCDF", "uD803", "uDCE0", "uD803", "uDCE1", "uD803", "uDCE2",
          "uD803", "uDCE3", "uD803", "uDCE4", "uD803", "uDCE5", "uD803",
          "uDCE6", "uD803", "uDCE7", "uD803", "uDCE8", "uD803", "uDCE9",
          "uD803", "uDCEA", "uD803", "uDCEB", "uD803", "uDCEC", "uD803",
          "uDCED", "uD803", "uDCEE", "uD803", "uDCEF", "uD803", "uDCF0",
          "uD803", "uDCF1", "uD803", "uDCF2", "uD803", "uDD50", "uD803",
          "uDD51", "uD803", "uDD52", "uD803", "uDD53", "uD803", "uDD54",
          "uD803", "uDD55", "uD803", "uDD56", "uD803", "uDD57", "uD803",
          "uDD58", "uD803", "uDD59", "uD803", "uDD5A", "uD803", "uDD5B",
          "uD803", "uDD5C", "uD803", "uDD5D", "uD803", "uDD5E", "uD803",
          "uDD5F", "uD803", "uDD60", "uD803", "uDD61", "uD803", "uDD62",
          "uD803", "uDD63", "uD803", "uDD64", "uD803", "uDD65", "uD803",
          "uDD70", "uD803", "uDD71", "uD803", "uDD72", "uD803", "uDD73",
          "uD803", "uDD74", "uD803", "uDD75", "uD803", "uDD76", "uD803",
          "uDD77", "uD803", "uDD78", "uD803", "uDD79", "uD803", "uDD7A",
          "uD803", "uDD7B", "uD803", "uDD7C", "uD803", "uDD7D", "uD803",
          "uDD7E", "uD803", "uDD7F", "uD803", "uDD80", "uD803", "uDD81",
          "uD803", "uDD82", "uD803", "uDD83", "uD803", "uDD84", "uD803",
          "uDD85", "uD806", "uDCA0", "uD806", "uDCA1", "uD806", "uDCA2",
          "uD806", "uDCA3", "uD806", "uDCA4", "uD806", "uDCA5", "uD806",
          "uDCA6", "uD806", "uDCA7", "uD806", "uDCA8", "uD806", "uDCA9",
          "uD806", "uDCAA", "uD806", "uDCAB", "uD806", "uDCAC", "uD806",
          "uDCAD", "uD806", "uDCAE", "uD806", "uDCAF", "uD806", "uDCB0",
          "uD806", "uDCB1", "uD806", "uDCB2", "uD806", "uDCB3", "uD806",
          "uDCB4", "uD806", "uDCB5", "uD806", "uDCB6", "uD806", "uDCB7",
          "uD806", "uDCB8", "uD806", "uDCB9", "uD806", "uDCBA", "uD806",
          "uDCBB", "uD806", "uDCBC", "uD806", "uDCBD", "uD806", "uDCBE",
          "uD806", "uDCBF", "uD806", "uDCC0", "uD806", "uDCC1", "uD806",
          "uDCC2", "uD806", "uDCC3", "uD806", "uDCC4", "uD806", "uDCC5",
          "uD806", "uDCC6", "uD806", "uDCC7", "uD806", "uDCC8", "uD806",
          "uDCC9", "uD806", "uDCCA", "uD806", "uDCCB", "uD806", "uDCCC",
          "uD806", "uDCCD", "uD806", "uDCCE", "uD806", "uDCCF", "uD806",
          "uDCD0", "uD806", "uDCD1", "uD806", "uDCD2", "uD806", "uDCD3",
          "uD806", "uDCD4", "uD806", "uDCD5", "uD806", "uDCD6", "uD806",
          "uDCD7", "uD806", "uDCD8", "uD806", "uDCD9", "uD806", "uDCDA",
          "uD806", "uDCDB", "uD806", "uDCDC", "uD806", "uDCDD", "uD806",
          "uDCDE", "uD806", "uDCDF", "uD81B", "uDE40", "uD81B", "uDE41",
          "uD81B", "uDE42", "uD81B", "uDE43", "uD81B", "uDE44", "uD81B",
          "uDE45", "uD81B", "uDE46", "uD81B", "uDE47", "uD81B", "uDE48",
          "uD81B", "uDE49", "uD81B", "uDE4A", "uD81B", "uDE4B", "uD81B",
          "uDE4C", "uD81B", "uDE4D", "uD81B", "uDE4E", "uD81B", "uDE4F",
          "uD81B", "uDE50", "uD81B", "uDE51", "uD81B", "uDE52", "uD81B",
          "uDE53", "uD81B", "uDE54", "uD81B", "uDE55", "uD81B", "uDE56",
          "uD81B", "uDE57", "uD81B", "uDE58", "uD81B", "uDE59", "uD81B",
          "uDE5A", "uD81B", "uDE5B", "uD81B", "uDE5C", "uD81B", "uDE5D",
          "uD81B", "uDE5E", "uD81B", "uDE5F", "uD81B", "uDE60", "uD81B",
          "uDE61", "uD81B", "uDE62", "uD81B", "uDE63", "uD81B", "uDE64",
          "uD81B", "uDE65", "uD81B", "uDE66", "uD81B", "uDE67", "uD81B",
          "uDE68", "uD81B", "uDE69", "uD81B", "uDE6A", "uD81B", "uDE6B",
          "uD81B", "uDE6C", "uD81B", "uDE6D", "uD81B", "uDE6E", "uD81B",
          "uDE6F", "uD81B", "uDE70", "uD81B", "uDE71", "uD81B", "uDE72",
          "uD81B", "uDE73", "uD81B", "uDE74", "uD81B", "uDE75", "uD81B",
          "uDE76", "uD81B", "uDE77", "uD81B", "uDE78", "uD81B", "uDE79",
          "uD81B", "uDE7A", "uD81B", "uDE7B", "uD81B", "uDE7C", "uD81B",
          "uDE7D", "uD81B", "uDE7E", "uD81B", "uDE7F", "uD81B", "uDEA0",
          "uD81B", "uDEA1", "uD81B", "uDEA2", "uD81B", "uDEA3", "uD81B",
          "uDEA4", "uD81B", "uDEA5", "uD81B", "uDEA6", "uD81B", "uDEA7",
          "uD81B", "uDEA8", "uD81B", "uDEA9", "uD81B", "uDEAA", "uD81B",
          "uDEAB", "uD81B", "uDEAC", "uD81B", "uDEAD", "uD81B", "uDEAE",
          "uD81B", "uDEAF", "uD81B", "uDEB0", "uD81B", "uDEB1", "uD81B",
          "uDEB2", "uD81B", "uDEB3", "uD81B", "uDEB4", "uD81B", "uDEB5",
          "uD81B", "uDEB6", "uD81B", "uDEB7", "uD81B", "uDEB8", "uD81B",
          "uDEBB", "uD81B", "uDEBC", "uD81B", "uDEBD", "uD81B", "uDEBE",
          "uD81B", "uDEBF", "uD81B", "uDEC0", "uD81B", "uDEC1", "uD81B",
          "uDEC2", "uD81B", "uDEC3", "uD81B", "uDEC4", "uD81B", "uDEC5",
          "uD81B", "uDEC6", "uD81B", "uDEC7", "uD81B", "uDEC8", "uD81B",
          "uDEC9", "uD81B", "uDECA", "uD81B", "uDECB", "uD81B", "uDECC",
          "uD81B", "uDECD", "uD81B", "uDECE", "uD81B", "uDECF", "uD81B",
          "uDED0", "uD81B", "uDED1", "uD81B", "uDED2", "uD81B", "uDED3",
          "uD835", "uDC00", "uD835", "uDC01", "uD835", "uDC02", "uD835",
          "uDC03", "uD835", "uDC04", "uD835", "uDC05", "uD835", "uDC06",
          "uD835", "uDC07", "uD835", "uDC08", "uD835", "uDC09", "uD835",
          "uDC0A", "uD835", "uDC0B", "uD835", "uDC0C", "uD835", "uDC0D",
          "uD835", "uDC0E", "uD835", "uDC0F", "uD835", "uDC10", "uD835",
          "uDC11", "uD835", "uDC12", "uD835", "uDC13", "uD835", "uDC14",
          "uD835", "uDC15", "uD835", "uDC16", "uD835", "uDC17", "uD835",
          "uDC18", "uD835", "uDC19", "uD835", "uDC1A", "uD835", "uDC1B",
          "uD835", "uDC1C", "uD835", "uDC1D", "uD835", "uDC1E", "uD835",
          "uDC1F", "uD835", "uDC20", "uD835", "uDC21", "uD835", "uDC22",
          "uD835", "uDC23", "uD835", "uDC24", "uD835", "uDC25", "uD835",
          "uDC26", "uD835", "uDC27", "uD835", "uDC28", "uD835", "uDC29",
          "uD835", "uDC2A", "uD835", "uDC2B", "uD835", "uDC2C", "uD835",
          "uDC2D", "uD835", "uDC2E", "uD835", "uDC2F", "uD835", "uDC30",
          "uD835", "uDC31", "uD835", "uDC32", "uD835", "uDC33", "uD835",
          "uDC34", "uD835", "uDC35", "uD835", "uDC36", "uD835", "uDC37",
          "uD835", "uDC38", "uD835", "uDC39", "uD835", "uDC3A", "uD835",
          "uDC3B", "uD835", "uDC3C", "uD835", "uDC3D", "uD835", "uDC3E",
          "uD835", "uDC3F", "uD835", "uDC40", "uD835", "uDC41", "uD835",
          "uDC42", "uD835", "uDC43", "uD835", "uDC44", "uD835", "uDC45",
          "uD835", "uDC46", "uD835", "uDC47", "uD835", "uDC48", "uD835",
          "uDC49", "uD835", "uDC4A", "uD835", "uDC4B", "uD835", "uDC4C",
          "uD835", "uDC4D", "uD835", "uDC4E", "uD835", "uDC4F", "uD835",
          "uDC50", "uD835", "uDC51", "uD835", "uDC52", "uD835", "uDC53",
          "uD835", "uDC54", "uD835", "uDC56", "uD835", "uDC57", "uD835",
          "uDC58", "uD835", "uDC59", "uD835", "uDC5A", "uD835", "uDC5B",
          "uD835", "uDC5C", "uD835", "uDC5D", "uD835", "uDC5E", "uD835",
          "uDC5F", "uD835", "uDC60", "uD835", "uDC61", "uD835", "uDC62",
          "uD835", "uDC63", "uD835", "uDC64", "uD835", "uDC65", "uD835",
          "uDC66", "uD835", "uDC67", "uD835", "uDC68", "uD835", "uDC69",
          "uD835", "uDC6A", "uD835", "uDC6B", "uD835", "uDC6C", "uD835",
          "uDC6D", "uD835", "uDC6E", "uD835", "uDC6F", "uD835", "uDC70",
          "uD835", "uDC71", "uD835", "uDC72", "uD835", "uDC73", "uD835",
          "uDC74", "uD835", "uDC75", "uD835", "uDC76", "uD835", "uDC77",
          "uD835", "uDC78", "uD835", "uDC79", "uD835", "uDC7A", "uD835",
          "uDC7B", "uD835", "uDC7C", "uD835", "uDC7D", "uD835", "uDC7E",
          "uD835", "uDC7F", "uD835", "uDC80", "uD835", "uDC81", "uD835",
          "uDC82", "uD835", "uDC83", "uD835", "uDC84", "uD835", "uDC85",
          "uD835", "uDC86", "uD835", "uDC87", "uD835", "uDC88", "uD835",
          "uDC89", "uD835", "uDC8A", "uD835", "uDC8B", "uD835", "uDC8C",
          "uD835", "uDC8D", "uD835", "uDC8E", "uD835", "uDC8F", "uD835",
          "uDC90", "uD835", "uDC91", "uD835", "uDC92", "uD835", "uDC93",
          "uD835", "uDC94", "uD835", "uDC95", "uD835", "uDC96", "uD835",
          "uDC97", "uD835", "uDC98", "uD835", "uDC99", "uD835", "uDC9A",
          "uD835", "uDC9B", "uD835", "uDC9C", "uD835", "uDC9E", "uD835",
          "uDC9F", "uD835", "uDCA2", "uD835", "uDCA5", "uD835", "uDCA6",
          "uD835", "uDCA9", "uD835", "uDCAA", "uD835", "uDCAB", "uD835",
          "uDCAC", "uD835", "uDCAE", "uD835", "uDCAF", "uD835", "uDCB0",
          "uD835", "uDCB1", "uD835", "uDCB2", "uD835", "uDCB3", "uD835",
          "uDCB4", "uD835", "uDCB5", "uD835", "uDCB6", "uD835", "uDCB7",
          "uD835", "uDCB8", "uD835", "uDCB9", "uD835", "uDCBB", "uD835",
          "uDCBD", "uD835", "uDCBE", "uD835", "uDCBF", "uD835", "uDCC0",
          "uD835", "uDCC1", "uD835", "uDCC2", "uD835", "uDCC3", "uD835",
          "uDCC5", "uD835", "uDCC6", "uD835", "uDCC7", "uD835", "uDCC8",
          "uD835", "uDCC9", "uD835", "uDCCA", "uD835", "uDCCB", "uD835",
          "uDCCC", "uD835", "uDCCD", "uD835", "uDCCE", "uD835", "uDCCF",
          "uD835", "uDCD0", "uD835", "uDCD1", "uD835", "uDCD2", "uD835",
          "uDCD3", "uD835", "uDCD4", "uD835", "uDCD5", "uD835", "uDCD6",
          "uD835", "uDCD7", "uD835", "uDCD8", "uD835", "uDCD9", "uD835",
          "uDCDA", "uD835", "uDCDB", "uD835", "uDCDC", "uD835", "uDCDD",
          "uD835", "uDCDE", "uD835", "uDCDF", "uD835", "uDCE0", "uD835",
          "uDCE1", "uD835", "uDCE2", "uD835", "uDCE3", "uD835", "uDCE4",
          "uD835", "uDCE5", "uD835", "uDCE6", "uD835", "uDCE7", "uD835",
          "uDCE8", "uD835", "uDCE9", "uD835", "uDCEA", "uD835", "uDCEB",
          "uD835", "uDCEC", "uD835", "uDCED", "uD835", "uDCEE", "uD835",
          "uDCEF", "uD835", "uDCF0", "uD835", "uDCF1", "uD835", "uDCF2",
          "uD835", "uDCF3", "uD835", "uDCF4", "uD835", "uDCF5", "uD835",
          "uDCF6", "uD835", "uDCF7", "uD835", "uDCF8", "uD835", "uDCF9",
          "uD835", "uDCFA", "uD835", "uDCFB", "uD835", "uDCFC", "uD835",
          "uDCFD", "uD835", "uDCFE", "uD835", "uDCFF", "uD835", "uDD00",
          "uD835", "uDD01", "uD835", "uDD02", "uD835", "uDD03", "uD835",
          "uDD04", "uD835", "uDD05", "uD835", "uDD07", "uD835", "uDD08",
          "uD835", "uDD09", "uD835", "uDD0A", "uD835", "uDD0D", "uD835",
          "uDD0E", "uD835", "uDD0F", "uD835", "uDD10", "uD835", "uDD11",
          "uD835", "uDD12", "uD835", "uDD13", "uD835", "uDD14", "uD835",
          "uDD16", "uD835", "uDD17", "uD835", "uDD18", "uD835", "uDD19",
          "uD835", "uDD1A", "uD835", "uDD1B", "uD835", "uDD1C", "uD835",
          "uDD1E", "uD835", "uDD1F", "uD835", "uDD20", "uD835", "uDD21",
          "uD835", "uDD22", "uD835", "uDD23", "uD835", "uDD24", "uD835",
          "uDD25", "uD835", "uDD26", "uD835", "uDD27", "uD835", "uDD28",
          "uD835", "uDD29", "uD835", "uDD2A", "uD835", "uDD2B", "uD835",
          "uDD2C", "uD835", "uDD2D", "uD835", "uDD2E", "uD835", "uDD2F",
          "uD835", "uDD30", "uD835", "uDD31", "uD835", "uDD32", "uD835",
          "uDD33", "uD835", "uDD34", "uD835", "uDD35", "uD835", "uDD36",
          "uD835", "uDD37", "uD835", "uDD38", "uD835", "uDD39", "uD835",
          "uDD3B", "uD835", "uDD3C", "uD835", "uDD3D", "uD835", "uDD3E",
          "uD835", "uDD40", "uD835", "uDD41", "uD835", "uDD42", "uD835",
          "uDD43", "uD835", "uDD44", "uD835", "uDD46", "uD835", "uDD4A",
          "uD835", "uDD4B", "uD835", "uDD4C", "uD835", "uDD4D", "uD835",
          "uDD4E", "uD835", "uDD4F", "uD835", "uDD50", "uD835", "uDD52",
          "uD835", "uDD53", "uD835", "uDD54", "uD835", "uDD55", "uD835",
          "uDD56", "uD835", "uDD57", "uD835", "uDD58", "uD835", "uDD59",
          "uD835", "uDD5A", "uD835", "uDD5B", "uD835", "uDD5C", "uD835",
          "uDD5D", "uD835", "uDD5E", "uD835", "uDD5F", "uD835", "uDD60",
          "uD835", "uDD61", "uD835", "uDD62", "uD835", "uDD63", "uD835",
          "uDD64", "uD835", "uDD65", "uD835", "uDD66", "uD835", "uDD67",
          "uD835", "uDD68", "uD835", "uDD69", "uD835", "uDD6A", "uD835",
          "uDD6B", "uD835", "uDD6C", "uD835", "uDD6D", "uD835", "uDD6E",
          "uD835", "uDD6F", "uD835", "uDD70", "uD835", "uDD71", "uD835",
          "uDD72", "uD835", "uDD73", "uD835", "uDD74", "uD835", "uDD75",
          "uD835", "uDD76", "uD835", "uDD77", "uD835", "uDD78", "uD835",
          "uDD79", "uD835", "uDD7A", "uD835", "uDD7B", "uD835", "uDD7C",
          "uD835", "uDD7D", "uD835", "uDD7E", "uD835", "uDD7F", "uD835",
          "uDD80", "uD835", "uDD81", "uD835", "uDD82", "uD835", "uDD83",
          "uD835", "uDD84", "uD835", "uDD85", "uD835", "uDD86", "uD835",
          "uDD87", "uD835", "uDD88", "uD835", "uDD89", "uD835", "uDD8A",
          "uD835", "uDD8B", "uD835", "uDD8C", "uD835", "uDD8D", "uD835",
          "uDD8E", "uD835", "uDD8F", "uD835", "uDD90", "uD835", "uDD91",
          "uD835", "uDD92", "uD835", "uDD93", "uD835", "uDD94", "uD835",
          "uDD95", "uD835", "uDD96", "uD835", "uDD97", "uD835", "uDD98",
          "uD835", "uDD99", "uD835", "uDD9A", "uD835", "uDD9B", "uD835",
          "uDD9C", "uD835", "uDD9D", "uD835", "uDD9E", "uD835", "uDD9F",
          "uD835", "uDDA0", "uD835", "uDDA1", "uD835", "uDDA2", "uD835",
          "uDDA3", "uD835", "uDDA4", "uD835", "uDDA5", "uD835", "uDDA6",
          "uD835", "uDDA7", "uD835", "uDDA8", "uD835", "uDDA9", "uD835",
          "uDDAA", "uD835", "uDDAB", "uD835", "uDDAC", "uD835", "uDDAD",
          "uD835", "uDDAE", "uD835", "uDDAF", "uD835", "uDDB0", "uD835",
          "uDDB1", "uD835", "uDDB2", "uD835", "uDDB3", "uD835", "uDDB4",
          "uD835", "uDDB5", "uD835", "uDDB6", "uD835", "uDDB7", "uD835",
          "uDDB8", "uD835", "uDDB9", "uD835", "uDDBA", "uD835", "uDDBB",
          "uD835", "uDDBC", "uD835", "uDDBD", "uD835", "uDDBE", "uD835",
          "uDDBF", "uD835", "uDDC0", "uD835", "uDDC1", "uD835", "uDDC2",
          "uD835", "uDDC3", "uD835", "uDDC4", "uD835", "uDDC5", "uD835",
          "uDDC6", "uD835", "uDDC7", "uD835", "uDDC8", "uD835", "uDDC9",
          "uD835", "uDDCA", "uD835", "uDDCB", "uD835", "uDDCC", "uD835",
          "uDDCD", "uD835", "uDDCE", "uD835", "uDDCF", "uD835", "uDDD0",
          "uD835", "uDDD1", "uD835", "uDDD2", "uD835", "uDDD3", "uD835",
          "uDDD4", "uD835", "uDDD5", "uD835", "uDDD6", "uD835", "uDDD7",
          "uD835", "uDDD8", "uD835", "uDDD9", "uD835", "uDDDA", "uD835",
          "uDDDB", "uD835", "uDDDC", "uD835", "uDDDD", "uD835", "uDDDE",
          "uD835", "uDDDF", "uD835", "uDDE0", "uD835", "uDDE1", "uD835",
          "uDDE2", "uD835", "uDDE3", "uD835", "uDDE4", "uD835", "uDDE5",
          "uD835", "uDDE6", "uD835", "uDDE7", "uD835", "uDDE8", "uD835",
          "uDDE9", "uD835", "uDDEA", "uD835", "uDDEB", "uD835", "uDDEC",
          "uD835", "uDDED", "uD835", "uDDEE", "uD835", "uDDEF", "uD835",
          "uDDF0", "uD835", "uDDF1", "uD835", "uDDF2", "uD835", "uDDF3",
          "uD835", "uDDF4", "uD835", "uDDF5", "uD835", "uDDF6", "uD835",
          "uDDF7", "uD835", "uDDF8", "uD835", "uDDF9", "uD835", "uDDFA",
          "uD835", "uDDFB", "uD835", "uDDFC", "uD835", "uDDFD", "uD835",
          "uDDFE", "uD835", "uDDFF", "uD835", "uDE00", "uD835", "uDE01",
          "uD835", "uDE02", "uD835", "uDE03", "uD835", "uDE04", "uD835",
          "uDE05", "uD835", "uDE06", "uD835", "uDE07", "uD835", "uDE08",
          "uD835", "uDE09", "uD835", "uDE0A", "uD835", "uDE0B", "uD835",
          "uDE0C", "uD835", "uDE0D", "uD835", "uDE0E", "uD835", "uDE0F",
          "uD835", "uDE10", "uD835", "uDE11", "uD835", "uDE12", "uD835",
          "uDE13", "uD835", "uDE14", "uD835", "uDE15", "uD835", "uDE16",
          "uD835", "uDE17", "uD835", "uDE18", "uD835", "uDE19", "uD835",
          "uDE1A", "uD835", "uDE1B", "uD835", "uDE1C", "uD835", "uDE1D",
          "uD835", "uDE1E", "uD835", "uDE1F", "uD835", "uDE20", "uD835",
          "uDE21", "uD835", "uDE22", "uD835", "uDE23", "uD835", "uDE24",
          "uD835", "uDE25", "uD835", "uDE26", "uD835", "uDE27", "uD835",
          "uDE28", "uD835", "uDE29", "uD835", "uDE2A", "uD835", "uDE2B",
          "uD835", "uDE2C", "uD835", "uDE2D", "uD835", "uDE2E", "uD835",
          "uDE2F", "uD835", "uDE30", "uD835", "uDE31", "uD835", "uDE32",
          "uD835", "uDE33", "uD835", "uDE34", "uD835", "uDE35", "uD835",
          "uDE36", "uD835", "uDE37", "uD835", "uDE38", "uD835", "uDE39",
          "uD835", "uDE3A", "uD835", "uDE3B", "uD835", "uDE3C", "uD835",
          "uDE3D", "uD835", "uDE3E", "uD835", "uDE3F", "uD835", "uDE40",
          "uD835", "uDE41", "uD835", "uDE42", "uD835", "uDE43", "uD835",
          "uDE44", "uD835", "uDE45", "uD835", "uDE46", "uD835", "uDE47",
          "uD835", "uDE48", "uD835", "uDE49", "uD835", "uDE4A", "uD835",
          "uDE4B", "uD835", "uDE4C", "uD835", "uDE4D", "uD835", "uDE4E",
          "uD835", "uDE4F", "uD835", "uDE50", "uD835", "uDE51", "uD835",
          "uDE52", "uD835", "uDE53", "uD835", "uDE54", "uD835", "uDE55",
          "uD835", "uDE56", "uD835", "uDE57", "uD835", "uDE58", "uD835",
          "uDE59", "uD835", "uDE5A", "uD835", "uDE5B", "uD835", "uDE5C",
          "uD835", "uDE5D", "uD835", "uDE5E", "uD835", "uDE5F", "uD835",
          "uDE60", "uD835", "uDE61", "uD835", "uDE62", "uD835", "uDE63",
          "uD835", "uDE64", "uD835", "uDE65", "uD835", "uDE66", "uD835",
          "uDE67", "uD835", "uDE68", "uD835", "uDE69", "uD835", "uDE6A",
          "uD835", "uDE6B", "uD835", "uDE6C", "uD835", "uDE6D", "uD835",
          "uDE6E", "uD835", "uDE6F", "uD835", "uDE70", "uD835", "uDE71",
          "uD835", "uDE72", "uD835", "uDE73", "uD835", "uDE74", "uD835",
          "uDE75", "uD835", "uDE76", "uD835", "uDE77", "uD835", "uDE78",
          "uD835", "uDE79", "uD835", "uDE7A", "uD835", "uDE7B", "uD835",
          "uDE7C", "uD835", "uDE7D", "uD835", "uDE7E", "uD835", "uDE7F",
          "uD835", "uDE80", "uD835", "uDE81", "uD835", "uDE82", "uD835",
          "uDE83", "uD835", "uDE84", "uD835", "uDE85", "uD835", "uDE86",
          "uD835", "uDE87", "uD835", "uDE88", "uD835", "uDE89", "uD835",
          "uDE8A", "uD835", "uDE8B", "uD835", "uDE8C", "uD835", "uDE8D",
          "uD835", "uDE8E", "uD835", "uDE8F", "uD835", "uDE90", "uD835",
          "uDE91", "uD835", "uDE92", "uD835", "uDE93", "uD835", "uDE94",
          "uD835", "uDE95", "uD835", "uDE96", "uD835", "uDE97", "uD835",
          "uDE98", "uD835", "uDE99", "uD835", "uDE9A", "uD835", "uDE9B",
          "uD835", "uDE9C", "uD835", "uDE9D", "uD835", "uDE9E", "uD835",
          "uDE9F", "uD835", "uDEA0", "uD835", "uDEA1", "uD835", "uDEA2",
          "uD835", "uDEA3", "uD835", "uDEA4", "uD835", "uDEA5", "uD835",
          "uDEA8", "uD835", "uDEA9", "uD835", "uDEAA", "uD835", "uDEAB",
          "uD835", "uDEAC", "uD835", "uDEAD", "uD835", "uDEAE", "uD835",
          "uDEAF", "uD835", "uDEB0", "uD835", "uDEB1", "uD835", "uDEB2",
          "uD835", "uDEB3", "uD835", "uDEB4", "uD835", "uDEB5", "uD835",
          "uDEB6", "uD835", "uDEB7", "uD835", "uDEB8", "uD835", "uDEB9",
          "uD835", "uDEBA", "uD835", "uDEBB", "uD835", "uDEBC", "uD835",
          "uDEBD", "uD835", "uDEBE", "uD835", "uDEBF", "uD835", "uDEC0",
          "uD835", "uDEC2", "uD835", "uDEC3", "uD835", "uDEC4", "uD835",
          "uDEC5", "uD835", "uDEC6", "uD835", "uDEC7", "uD835", "uDEC8",
          "uD835", "uDEC9", "uD835", "uDECA", "uD835", "uDECB", "uD835",
          "uDECC", "uD835", "uDECD", "uD835", "uDECE", "uD835", "uDECF",
          "uD835", "uDED0", "uD835", "uDED1", "uD835", "uDED2", "uD835",
          "uDED3", "uD835", "uDED4", "uD835", "uDED5", "uD835", "uDED6",
          "uD835", "uDED7", "uD835", "uDED8", "uD835", "uDED9", "uD835",
          "uDEDA", "uD835", "uDEDC", "uD835", "uDEDD", "uD835", "uDEDE",
          "uD835", "uDEDF", "uD835", "uDEE0", "uD835", "uDEE1", "uD835",
          "uDEE2", "uD835", "uDEE3", "uD835", "uDEE4", "uD835", "uDEE5",
          "uD835", "uDEE6", "uD835", "uDEE7", "uD835", "uDEE8", "uD835",
          "uDEE9", "uD835", "uDEEA", "uD835", "uDEEB", "uD835", "uDEEC",
          "uD835", "uDEED", "uD835", "uDEEE", "uD835", "uDEEF", "uD835",
          "uDEF0", "uD835", "uDEF1", "uD835", "uDEF2", "uD835", "uDEF3",
          "uD835", "uDEF4", "uD835", "uDEF5", "uD835", "uDEF6", "uD835",
          "uDEF7", "uD835", "uDEF8", "uD835", "uDEF9", "uD835", "uDEFA",
          "uD835", "uDEFC", "uD835", "uDEFD", "uD835", "uDEFE", "uD835",
          "uDEFF", "uD835", "uDF00", "uD835", "uDF01", "uD835", "uDF02",
          "uD835", "uDF03", "uD835", "uDF04", "uD835", "uDF05", "uD835",
          "uDF06", "uD835", "uDF07", "uD835", "uDF08", "uD835", "uDF09",
          "uD835", "uDF0A", "uD835", "uDF0B", "uD835", "uDF0C", "uD835",
          "uDF0D", "uD835", "uDF0E", "uD835", "uDF0F", "uD835", "uDF10",
          "uD835", "uDF11", "uD835", "uDF12", "uD835", "uDF13", "uD835",
          "uDF14", "uD835", "uDF16", "uD835", "uDF17", "uD835", "uDF18",
          "uD835", "uDF19", "uD835", "uDF1A", "uD835", "uDF1B", "uD835",
          "uDF1C", "uD835", "uDF1D", "uD835", "uDF1E", "uD835", "uDF1F",
          "uD835", "uDF20", "uD835", "uDF21", "uD835", "uDF22", "uD835",
          "uDF23", "uD835", "uDF24", "uD835", "uDF25", "uD835", "uDF26",
          "uD835", "uDF27", "uD835", "uDF28", "uD835", "uDF29", "uD835",
          "uDF2A", "uD835", "uDF2B", "uD835", "uDF2C", "uD835", "uDF2D",
          "uD835", "uDF2E", "uD835", "uDF2F", "uD835", "uDF30", "uD835",
          "uDF31", "uD835", "uDF32", "uD835", "uDF33", "uD835", "uDF34",
          "uD835", "uDF36", "uD835", "uDF37", "uD835", "uDF38", "uD835",
          "uDF39", "uD835", "uDF3A", "uD835", "uDF3B", "uD835", "uDF3C",
          "uD835", "uDF3D", "uD835", "uDF3E", "uD835", "uDF3F", "uD835",
          "uDF40", "uD835", "uDF41", "uD835", "uDF42", "uD835", "uDF43",
          "uD835", "uDF44", "uD835", "uDF45", "uD835", "uDF46", "uD835",
          "uDF47", "uD835", "uDF48", "uD835", "uDF49", "uD835", "uDF4A",
          "uD835", "uDF4B", "uD835", "uDF4C", "uD835", "uDF4D", "uD835",
          "uDF4E", "uD835", "uDF50", "uD835", "uDF51", "uD835", "uDF52",
          "uD835", "uDF53", "uD835", "uDF54", "uD835", "uDF55", "uD835",
          "uDF56", "uD835", "uDF57", "uD835", "uDF58", "uD835", "uDF59",
          "uD835", "uDF5A", "uD835", "uDF5B", "uD835", "uDF5C", "uD835",
          "uDF5D", "uD835", "uDF5E", "uD835", "uDF5F", "uD835", "uDF60",
          "uD835", "uDF61", "uD835", "uDF62", "uD835", "uDF63", "uD835",
          "uDF64", "uD835", "uDF65", "uD835", "uDF66", "uD835", "uDF67",
          "uD835", "uDF68", "uD835", "uDF69", "uD835", "uDF6A", "uD835",
          "uDF6B", "uD835", "uDF6C", "uD835", "uDF6D", "uD835", "uDF6E",
          "uD835", "uDF70", "uD835", "uDF71", "uD835", "uDF72", "uD835",
          "uDF73", "uD835", "uDF74", "uD835", "uDF75", "uD835", "uDF76",
          "uD835", "uDF77", "uD835", "uDF78", "uD835", "uDF79", "uD835",
          "uDF7A", "uD835", "uDF7B", "uD835", "uDF7C", "uD835", "uDF7D",
          "uD835", "uDF7E", "uD835", "uDF7F", "uD835", "uDF80", "uD835",
          "uDF81", "uD835", "uDF82", "uD835", "uDF83", "uD835", "uDF84",
          "uD835", "uDF85", "uD835", "uDF86", "uD835", "uDF87", "uD835",
          "uDF88", "uD835", "uDF8A", "uD835", "uDF8B", "uD835", "uDF8C",
          "uD835", "uDF8D", "uD835", "uDF8E", "uD835", "uDF8F", "uD835",
          "uDF90", "uD835", "uDF91", "uD835", "uDF92", "uD835", "uDF93",
          "uD835", "uDF94", "uD835", "uDF95", "uD835", "uDF96", "uD835",
          "uDF97", "uD835", "uDF98", "uD835", "uDF99", "uD835", "uDF9A",
          "uD835", "uDF9B", "uD835", "uDF9C", "uD835", "uDF9D", "uD835",
          "uDF9E", "uD835", "uDF9F", "uD835", "uDFA0", "uD835", "uDFA1",
          "uD835", "uDFA2", "uD835", "uDFA3", "uD835", "uDFA4", "uD835",
          "uDFA5", "uD835", "uDFA6", "uD835", "uDFA7", "uD835", "uDFA8",
          "uD835", "uDFAA", "uD835", "uDFAB", "uD835", "uDFAC", "uD835",
          "uDFAD", "uD835", "uDFAE", "uD835", "uDFAF", "uD835", "uDFB0",
          "uD835", "uDFB1", "uD835", "uDFB2", "uD835", "uDFB3", "uD835",
          "uDFB4", "uD835", "uDFB5", "uD835", "uDFB6", "uD835", "uDFB7",
          "uD835", "uDFB8", "uD835", "uDFB9", "uD835", "uDFBA", "uD835",
          "uDFBB", "uD835", "uDFBC", "uD835", "uDFBD", "uD835", "uDFBE",
          "uD835", "uDFBF", "uD835", "uDFC0", "uD835", "uDFC1", "uD835",
          "uDFC2", "uD835", "uDFC4", "uD835", "uDFC5", "uD835", "uDFC6",
          "uD835", "uDFC7", "uD835", "uDFC8", "uD835", "uDFC9", "uD835",
          "uDFCA", "uD835", "uDFCB", "uD837", "uDF00", "uD837", "uDF01",
          "uD837", "uDF02", "uD837", "uDF03", "uD837", "uDF04", "uD837",
          "uDF05", "uD837", "uDF06", "uD837", "uDF07", "uD837", "uDF08",
          "uD837", "uDF09", "uD837", "uDF0B", "uD837", "uDF0C", "uD837",
          "uDF0D", "uD837", "uDF0E", "uD837", "uDF0F", "uD837", "uDF10",
          "uD837", "uDF11", "uD837", "uDF12", "uD837", "uDF13", "uD837",
          "uDF14", "uD837", "uDF15", "uD837", "uDF16", "uD837", "uDF17",
          "uD837", "uDF18", "uD837", "uDF19", "uD837", "uDF1A", "uD837",
          "uDF1B", "uD837", "uDF1C", "uD837", "uDF1D", "uD837", "uDF1E",
          "uD837", "uDF25", "uD837", "uDF26", "uD837", "uDF27", "uD837",
          "uDF28", "uD837", "uDF29", "uD837", "uDF2A", "uD83A", "uDD00",
          "uD83A", "uDD01", "uD83A", "uDD02", "uD83A", "uDD03", "uD83A",
          "uDD04", "uD83A", "uDD05", "uD83A", "uDD06", "uD83A", "uDD07",
          "uD83A", "uDD08", "uD83A", "uDD09", "uD83A", "uDD0A", "uD83A",
          "uDD0B", "uD83A", "uDD0C", "uD83A", "uDD0D", "uD83A", "uDD0E",
          "uD83A", "uDD0F", "uD83A", "uDD10", "uD83A", "uDD11", "uD83A",
          "uDD12", "uD83A", "uDD13", "uD83A", "uDD14", "uD83A", "uDD15",
          "uD83A", "uDD16", "uD83A", "uDD17", "uD83A", "uDD18", "uD83A",
          "uDD19", "uD83A", "uDD1A", "uD83A", "uDD1B", "uD83A", "uDD1C",
          "uD83A", "uDD1D", "uD83A", "uDD1E", "uD83A", "uDD1F", "uD83A",
          "uDD20", "uD83A", "uDD21", "uD83A", "uDD22", "uD83A", "uDD23",
          "uD83A", "uDD24", "uD83A", "uDD25", "uD83A", "uDD26", "uD83A",
          "uDD27", "uD83A", "uDD28", "uD83A", "uDD29", "uD83A", "uDD2A",
          "uD83A", "uDD2B", "uD83A", "uDD2C", "uD83A", "uDD2D", "uD83A",
          "uDD2E", "uD83A", "uDD2F", "uD83A", "uDD30", "uD83A", "uDD31",
          "uD83A", "uDD32", "uD83A", "uDD33", "uD83A", "uDD34", "uD83A",
          "uDD35", "uD83A", "uDD36", "uD83A", "uDD37", "uD83A", "uDD38",
          "uD83A", "uDD39", "uD83A", "uDD3A", "uD83A", "uDD3B", "uD83A",
          "uDD3C", "uD83A", "uDD3D", "uD83A", "uDD3E", "uD83A", "uDD3F",
          "uD83A", "uDD40", "uD83A", "uDD41", "uD83A", "uDD42", "uD83A",
          "uDD43", "uD83C", "uDD30", "uD83C", "uDD31", "uD83C", "uDD32",
          "uD83C", "uDD33", "uD83C", "uDD34", "uD83C", "uDD35", "uD83C",
          "uDD36", "uD83C", "uDD37", "uD83C", "uDD38", "uD83C", "uDD39",
          "uD83C", "uDD3A", "uD83C", "uDD3B", "uD83C", "uDD3C", "uD83C",
          "uDD3D", "uD83C", "uDD3E", "uD83C", "uDD3F", "uD83C", "uDD40",
          "uD83C", "uDD41", "uD83C", "uDD42", "uD83C", "uDD43", "uD83C",
          "uDD44", "uD83C", "uDD45", "uD83C", "uDD46", "uD83C", "uDD47",
          "uD83C", "uDD48", "uD83C", "uDD49", "uD83C", "uDD50", "uD83C",
          "uDD51", "uD83C", "uDD52", "uD83C", "uDD53", "uD83C", "uDD54",
          "uD83C", "uDD55", "uD83C", "uDD56", "uD83C", "uDD57", "uD83C",
          "uDD58", "uD83C", "uDD59", "uD83C", "uDD5A", "uD83C", "uDD5B",
          "uD83C", "uDD5C", "uD83C", "uDD5D", "uD83C", "uDD5E", "uD83C",
          "uDD5F", "uD83C", "uDD60", "uD83C", "uDD61", "uD83C", "uDD62",
          "uD83C", "uDD63", "uD83C", "uDD64", "uD83C", "uDD65", "uD83C",
          "uDD66", "uD83C", "uDD67", "uD83C", "uDD68", "uD83C", "uDD69",
          "uD83C", "uDD70", "uD83C", "uDD71", "uD83C", "uDD72", "uD83C",
          "uDD73", "uD83C", "uDD74", "uD83C", "uDD75", "uD83C", "uDD76",
          "uD83C", "uDD77", "uD83C", "uDD78", "uD83C", "uDD79", "uD83C",
          "uDD7A", "uD83C", "uDD7B", "uD83C", "uDD7C", "uD83C", "uDD7D",
          "uD83C", "uDD7E", "uD83C", "uDD7F", "uD83C", "uDD80", "uD83C",
          "uDD81", "uD83C", "uDD82", "uD83C", "uDD83", "uD83C", "uDD84",
          "uD83C", "uDD85", "uD83C", "uDD86", "uD83C", "uDD87", "uD83C",
          "uDD88", "uD83C", "uDD89" >>
  IN {<<c>> : c \in bmp}
       \cup {<<astral[(2 * i) - 1], astral[2 * i]>> : i \in 1..(Len(astral) \div 2)}

\* String.prototype.toLowerCase, one code unit
ToLowerChar(c) ==
  IF c \in Range(UpperChars)
    THEN <<LowerChars[CHOOSE i \in DOMAIN UpperChars : UpperChars[i] = c]>>
  ELSE IF c = "u0130" THEN <<"i", "u0307">>
  ELSE IF c \in DOMAIN LowerCaseMappings THEN <<LowerCaseMappings[c]>>
  ELSE <<c>>

\* the strings of a sequence, one after the other
RECURSIVE Concat(_)
Concat(ss) ==
  IF ss = <<>> THEN <<>>
  ELSE IF Len(ss) = 1 THEN ss[1]
  ELSE Concat(SubSeq(ss, 1, Len(ss) \div 2)) \o Concat(SubSeq(ss, (Len(ss) \div 2) + 1, Len(ss)))

\* String.prototype.toLowerCase, code point by code point.  A capital sigma
\* lowers to the final sigma under Final_Sigma of SpecialCasing: the code
\* point before it that is not case-ignorable is a cased letter, and the one
\* after it is not.
ToLowerCase(s) ==
  LET \* before and after: the positions around a sigma that are not case-ignorable
      Holds(cps, before, after) ==
        /\ before # {}
        /\ cps[CHOOSE j \in before : \A k \in before : k <= j] \in Cased
        /\ after # {} => cps[CHOOSE j \in after : \A k \in after : j <= k] \notin Cased
      FinalSigma(cps, i) ==
        Holds(cps, {j \in 1..(i - 1) : cps[j] \notin CaseIgnorable},
              {j \in (i + 1)..Len(cps) : cps[j] \notin CaseIgnorable})
      Lower(cps, i) ==
        IF Len(cps[i]) = 2
          THEN IF cps[i] \in DOMAIN LowerCaseAstralMappings
                 THEN LowerCaseAstralMappings[cps[i]]
               ELSE cps[i]
        ELSE IF cps[i][1] = "u03A3" /\ FinalSigma(cps, i) THEN <<"u03C2">>
        ELSE ToLowerChar(cps[i][1])
      All(cps) == Concat([i \in DOMAIN cps |-> Lower(cps, i)])
  IN All(CodePoints(s))

\* the value of one decimal digit
DigitVal(c) == (CHOOSE i \in DOMAIN DigitChars : DigitChars[i] = c) - 1

\* String.prototype.includes
Includes(s, sub) ==
  \E i \in 1..(Len(s) - Len(sub) + 1) : SubSeq(s, i, i + Len(sub) - 1) = sub

(***************************************************************************)
(* Regular expressions.  A pattern is a sequence of elements: a character  *)
(* class (cs, negated when neg) with a quantifier q in "1", "?", "*", "+", *)
(* or the word-boundary assertion \b.  Matching ignores case (every        *)
(* pattern of the source has the i flag and none has the u flag): two      *)
(* characters match when Canonicalize gives the same character for both.   *)
(***************************************************************************)
\* Canonicalize of a regular expression with the i flag and without the u
\* flag compares the upper cases of two characters, and never lets a
\* character outside ASCII stand for an ASCII one.  The letters of the
\* patterns of the source are ASCII and their other characters have no case,
\* so a character matches a member of a class exactly when both are the same
\* ASCII letter in either case or the same character; the model folds to the
\* lower case.
Canonicalize(c) ==
  IF c \in Range(UpperChars)
    THEN LowerChars[CHOOSE i \in DOMAIN UpperChars : UpperChars[i] = c]
  ELSE c

Cls(cs, q) == [k |-> "cls", cs |-> cs, neg |-> FALSE, q |-> q]

NotCls(cs, q) == [k |-> "cls", cs |-> cs, neg |-> TRUE, q |-> q]

WordBoundary == [k |-> "wb", cs |-> {}, neg |-> FALSE, q |-> "1"]

\* a literal word, character by character
Lit(w) == [i \in DOMAIN w |-> Cls({Canonicalize(w[i])}, "1")]

\* [_\s]?
OptSep == <<Cls({"_"} \cup WhiteSpace, "?")>>

\* \s*
Spaces == <<Cls(WhiteSpace, "*")>>

\* .*
AnyStar == <<NotCls(LineTerminators, "*")>>

InClass(el, c) == (Canonicalize(c) \in el.cs) # el.neg

\* the length of the longest run of class members of s starting at p
RunLen(el, s, p) ==
  IF \A j \in p..Len(s) : InClass(el, s[j]) THEN (Len(s) + 1) - p
  ELSE (CHOOSE j \in p..Len(s) :
          ~InClass(el, s[j]) /\ \A i \in p..(j - 1) : InClass(el, s[i])) - p

IsWordAt(s, p) == p >= 1 /\ p <= Len(s) /\ s[p] \in WordChars

\* the positions at which the match may continue once el has matched at p
StepEnds(el, s, p) ==
  IF el.k = "wb"
    THEN IF IsWordAt(s, p - 1) # IsWordAt(s, p) THEN {p} ELSE {}
  ELSE IF el.q = "1"
    THEN IF p <= Len(s) /\ InClass(el, s[p]) THEN {p + 1} ELSE {}
  ELSE IF el.q = "?"
    THEN {p} \cup (IF p <= Len(s) /\ InClass(el, s[p]) THEN {p + 1} ELSE {})
  ELSE IF el.q = "*"
    THEN p..(p + RunLen(el, s, p))
  ELSE (p + 1)..(p + RunLen(el, s, p))

\* the positions at which a match of pat[k..] started from one of P may end
RECURSIVE MatchEnds(_, _, _, _)
MatchEnds(pat, s, P, k) ==
  IF k > Len(pat) \/ P = {} THEN P
  ELSE MatchEnds(pat, s, UNION {StepEnds(pat[k], s, p) : p \in P}, k + 1)

MatchesAt(pat, s, i) == MatchEnds(pat, s, {i}, 1) # {}

\* RegExp.prototype.test
RegexTest(pat, s) == \E i \in 1..(Len(s) + 1) : MatchesAt(pat, s, i)

\* String.prototype.match for a pattern prefix followed by one capture group
\* of digits, (\d{n}) when n > 0 and (\d+) when n = 0.  The class before the
\* group holds no digit in every pattern of the source, so the group starts at
\* the one end of the prefix that is followed by a digit.  The result is the
\* set holding the captured digits of the leftmost match, empty for no match.
DigitGroup(n) ==
  IF n = 0 THEN <<Cls(Digits, "+")>> ELSE [i \in 1..n |-> Cls(Digits, "1")]

MatchDigits(prefix, n, s) ==
  LET full == prefix \o DigitGroup(n)
      starts == {i \in 1..(Len(s) + 1) : MatchesAt(full, s, i)}
  IN IF starts = {} THEN {}
     ELSE LET i == CHOOSE x \in starts : \A y \in starts : x <= y
              p == CHOOSE x \in MatchEnds(prefix, s, {i}, 1) :
                     MatchEnds(DigitGroup(n), s, {x}, 1) # {}
              len == IF n = 0 THEN RunLen(Cls(Digits, "+"), s, p) ELSE n
          IN {SubSeq(s, p, p + len - 1)}

(***************************************************************************)
(* JavaScript values.  A value is a record: t is its typeof-style tag      *)
(* ("undefined", "null", "number", "string", "object"), n its number, s    *)
(* its string, o its own enumerable properties in insertion order (a       *)
(* sequence of key/value pairs).  isError marks an instance of Error,      *)
(* whose message is the non-enumerable property kept in s.                 *)
(***************************************************************************)
Undefined == [t |-> "undefined", n |-> 0, s |-> <<>>, o |-> <<>>, isError |-> FALSE]

Null == [t |-> "null", n |-> 0, s |-> <<>>, o |-> <<>>, isError |-> FALSE]

Num(n) == [t |-> "number", n |-> n, s |-> <<>>, o |-> <<>>, isError |-> FALSE]

Str(s) == [t |-> "string", n |-> 0, s |-> s, o |-> <<>>, isError |-> FALSE]

Bool(b) == [t |-> "boolean", n |-> IF b THEN 1 ELSE 0, s |-> <<>>, o |-> <<>>,
           isError |-> FALSE]

Obj(o) == [t |-> "object", n |-> 0, s |-> <<>>, o |-> o, isError |-> FALSE]

\* new Error(msg), with further own properties o assigned to it
ErrorObj(msg, o) == [t |-> "object", n |-> 0, s |-> msg, o |-> o, isError |-> TRUE]

P(k, v) == [k |-> k, v |-> v]

\* obj[key]
Prop(obj, key) ==
  IF \E i \in DOMAIN obj.o : obj.o[i].k = key
    THEN obj.o[CHOOSE i \in DOMAIN obj.o : obj.o[i].k = key].v
  ELSE IF obj.isError /\ key = "message" THEN Str(obj.s)
  ELSE Undefined

\* x ?? y
Nullish(x, y) == IF x.t \in {"undefined", "null"} THEN y ELSE x

\* the decimal digits of a natural number
RECURSIVE NatToString(_)
NatToString(n) ==
  IF n < 10 THEN <<DigitChars[n + 1]>>
  ELSE NatToString(n \div 10) \o <<DigitChars[(n % 10) + 1]>>

\* String(n) of an integer
NumberToString(n) == IF n < 0 THEN <<"-">> \o NatToString(-n) ELSE NatToString(n)

\* String(v) of a number or a boolean
StringOf(v) ==
  IF v.t = "boolean"
    THEN (IF v.n = 1 THEN <<"t","r","u","e">> ELSE <<"f","a","l","s","e">>)
  ELSE NumberToString(v.n)

\* the digits of the bases 2, 8, 10 and 16, in either case
HexChars ==
  << <<"0">>, <<"1">>, <<"2">>, <<"3">>, <<"4">>, <<"5">>, <<"6">>, <<"7">>, <<"8">>, <<"9">>,
     <<"a", "A">>, <<"b", "B">>, <<"c", "C">>, <<"d", "D">>, <<"e", "E">>, <<"f", "F">> >>

\* the code units U+0000..U+001F, in order
ControlChars ==
  <<
    "u0000", "u0001", "u0002", "u0003", "u0004", "u0005", "u0006", "u0007",
    "u0008", "\t", "\n", "u000B", "\f", "\r", "u000E", "u000F", "u0010",
    "u0011", "u0012", "u0013", "u0014", "u0015", "u0016", "u0017", "u0018",
    "u0019", "u001A", "u001B", "u001C", "u001D", "u001E", "u001F" >>

\* A string inside JSON text, without its quotes (QuoteJSONString), code point
\* by code point: the quote, the backslash, backspace, tab, line feed, form
\* feed and carriage return have a two-character escape, every other code
\* unit below U+0020 and a surrogate that is not part of a pair are written
\* as \u and four lower-case hexadecimal digits, everything else is copied.
JsonEscape(s) ==
  LET Hex(n) == HexChars[(n % 16) + 1][1]
      UnicodeEscape(n) ==
        <<"\\", "u", Hex(n \div 4096), Hex(n \div 256), Hex(n \div 16), Hex(n)>>
      Escaped(c) ==
        IF c = "\"" THEN <<"\\", "\"">>
        ELSE IF c = "\\" THEN <<"\\", "\\">>
        ELSE IF c = "u0008" THEN <<"\\", "b">>
        ELSE IF c = "\t" THEN <<"\\", "t">>
        ELSE IF c = "\n" THEN <<"\\", "n">>
        ELSE IF c = "\f" THEN <<"\\", "f">>
        ELSE IF c = "\r" THEN <<"\\", "r">>
        ELSE IF c \in Range(ControlChars)
          THEN UnicodeEscape((CHOOSE n \in DOMAIN ControlChars : ControlChars[n] = c) - 1)
        ELSE IF c \in DOMAIN Surrogates THEN UnicodeEscape(Surrogates[c])
        ELSE <<c>>
      All(cps) ==
        Concat([i \in DOMAIN cps |-> IF Len(cps[i]) = 2 THEN cps[i] ELSE Escaped(cps[i][1])])
  IN All(CodePoints(s))

JsonQuote(s) == <<"\"">> \o JsonEscape(s) \o <<"\"">>

\* the characters of a property name
KeyChars(k) ==
  CASE k = "status" -> <<"s","t","a","t","u","s">>
    [] k = "error" -> <<"e","r","r","o","r">>
    [] k = "message" -> <<"m","e","s","s","a","g","e">>
    [] k = "type" -> <<"t","y","p","e">>
    [] k = "code" -> <<"c","o","d","e">>
    [] k = "reason" -> <<"r","e","a","s","o","n">>
    [] k = "retry_after" -> <<"r","e","t","r","y","_","a","f","t","e","r">>
    [] k = "detail" -> <<"d","e","t","a","i","l">>

\* JSON.stringify: own enumerable properties in insertion order, a property
\* whose value is undefined left out
RECURSIVE JsonStringify(_)
RECURSIVE JsonMembers(_, _)
JsonMembers(o, first) ==
  IF o = <<>> THEN <<>>
  ELSE IF o[1].v.t = "undefined" THEN JsonMembers(Tail(o), first)
  ELSE (IF first THEN <<>> ELSE <<",">>)
         \o JsonQuote(KeyChars(o[1].k)) \o <<":">> \o JsonStringify(o[1].v)
         \o JsonMembers(Tail(o), FALSE)

JsonStringify(v) ==
  IF v.t \in {"number", "boolean"} THEN StringOf(v)
  ELSE IF v.t = "string" THEN JsonQuote(v.s)
  ELSE IF v.t = "object" THEN <<"{">> \o JsonMembers(v.o, TRUE) \o <<"}">>
  ELSE <<"n","u","l","l">>

(***************************************************************************)
(* Numbers.  A Number of JavaScript is a double.  The model keeps the      *)
(* exact value of a finite double, sign * digits * 10^exp: digits is a     *)
(* natural number of any size, written as the sequence of its decimal      *)
(* digits without leading zeros (0 is the empty sequence), and exp <= 0 is *)
(* as large as it can be, so that a whole number has exp = 0.  inf marks   *)
(* the two infinities.  NaN is not a value: an operator that can give NaN  *)
(* gives a set, empty for NaN.                                             *)
(***************************************************************************)
\* without the zeros at its head
StripZeros(a) ==
  IF \A i \in DOMAIN a : a[i] = 0 THEN <<>>
  ELSE SubSeq(a, CHOOSE i \in DOMAIN a : a[i] # 0 /\ \A j \in 1..(i - 1) : a[j] = 0,
              Len(a))

\* the natural number of at most nine digits
RECURSIVE DigitsValue(_)
DigitsValue(a) ==
  IF a = <<>> THEN 0 ELSE (10 * DigitsValue(SubSeq(a, 1, Len(a) - 1))) + a[Len(a)]

BigLess(a, b) ==
  \/ Len(a) < Len(b)
  \/ /\ Len(a) = Len(b)
     /\ \E i \in DOMAIN a : a[i] < b[i] /\ \A j \in 1..(i - 1) : a[j] = b[j]

\* 2 * a + bit.  A digit carries when it is 5 or more, whatever is carried
\* into it.
DoublePlus(a, bit) ==
  LET carry(i) == IF i = Len(a) THEN bit ELSE IF a[i + 1] >= 5 THEN 1 ELSE 0
      low == [i \in DOMAIN a |-> ((2 * a[i]) + carry(i)) % 10]
  IN IF a = <<>> THEN (IF bit = 1 THEN <<1>> ELSE <<>>)
     ELSE IF a[1] >= 5 THEN <<1>> \o low ELSE low

\* a * b^n, for b = 2 or b = 5, by halves of n.  a * 5 is the half of a * 10:
\* in a half, an odd digit hands 10 to the digit after it.
RECURSIVE TimesPower(_, _, _)
TimesPower(a, b, n) ==
  LET ten == a \o <<0>>
      before(i) == IF i > 1 /\ ten[i - 1] % 2 = 1 THEN 10 ELSE 0
  IN IF a = <<>> \/ n = 0 THEN a
     ELSE IF n = 1
       THEN IF b = 2 THEN DoublePlus(a, 0)
            ELSE StripZeros([i \in DOMAIN ten |-> (ten[i] + before(i)) \div 2])
     ELSE TimesPower(TimesPower(a, b, n \div 2), b, n - (n \div 2))

Zero(neg) == [inf |-> FALSE, neg |-> neg, digits |-> <<>>, exp |-> 0]

Infinity(neg) == [inf |-> TRUE, neg |-> neg, digits |-> <<>>, exp |-> 0]

\* the Number of an integer of the model
JsNumber(n) ==
  LET text == NatToString(IF n < 0 THEN 0 - n ELSE n)
  IN [inf |-> FALSE, neg |-> n < 0,
      digits |-> StripZeros([i \in DOMAIN text |-> DigitVal(text[i])]), exp |-> 0]

\* 2^53
Pow2To53 == <<9,0,0,7,1,9,9,2,5,4,7,4,0,9,9,2>>

\* The double of a mantissa s.whole, or s.whole + 1 when s.up, times 2^s.e,
\* the mantissa being 2^53 at most: an infinity from 2^1024; the digits of
\* q * 2^e for e >= 0, and those of q * 5^-e, less the zeros that end them,
\* with the exponent e of 10 otherwise.
MakeDouble(neg, s) ==
  LET \* how many times the digit d ends a
      Ending(a, d) ==
        IF \A i \in DOMAIN a : a[i] = d THEN Len(a)
        ELSE Len(a) - (CHOOSE i \in DOMAIN a : a[i] # d /\ \A j \in (i + 1)..Len(a) : a[j] = d)
      \* a + 1, for a that ends with nines nines
      Increment(a, nines) ==
        IF nines = Len(a) THEN <<1>> \o [i \in 1..nines |-> 0]
        ELSE [i \in DOMAIN a |->
                IF i < Len(a) - nines THEN a[i]
                ELSE IF i = Len(a) - nines THEN a[i] + 1 ELSE 0]
      Finite(digits, exp) == [inf |-> FALSE, neg |-> neg, digits |-> digits, exp |-> exp]
      Drop(fives, dropped) == Finite(SubSeq(fives, 1, Len(fives) - dropped), s.e + dropped)
      Shorten(fives, zeros) == Drop(fives, IF zeros < 0 - s.e THEN zeros ELSE 0 - s.e)
      \* product is q * 2^e for e >= 0, and q * 5^-e for e < 0
      Product(product) ==
        IF s.e >= 0 THEN Finite(product, 0) ELSE Shorten(product, Ending(product, 0))
      Double(q) ==
        IF q = <<>> THEN Zero(neg)
        ELSE IF s.e > 971 \/ (s.e = 971 /\ ~BigLess(q, Pow2To53)) THEN Infinity(neg)
        ELSE Product(TimesPower(q, IF s.e >= 0 THEN 2 ELSE 5,
                                IF s.e >= 0 THEN s.e ELSE 0 - s.e))
  IN Double(IF s.up THEN Increment(s.whole, Ending(s.whole, 9)) ELSE s.whole)

\* The binary exponent of digits * 10^k: the e with 2^52 <= value / 2^e < 2^53,
\* and -1074, the exponent of the subnormal doubles, for a value below 2^-1022.
\* With it the whole part of value / 2^e, and whether the nearest whole number
\* is the next one: the fraction is more than a half, or it is a half and the
\* whole part is odd.  The value is multiplied by 2^-e when e <= 0, and by
\* 5^e, with the point e places to the left, when e > 0.
RECURSIVE Scale(_, _, _)
Scale(digits, k, e) ==
  LET Settle(whole, fraction) ==
        IF ~BigLess(whole, Pow2To53) THEN Scale(digits, k, e + 1)
        ELSE IF e > -1074 /\ BigLess(DoublePlus(whole, 0), Pow2To53)
          THEN Scale(digits, k, e - 1)
        ELSE [e |-> e, whole |-> whole,
              up |-> /\ fraction # <<>>
                     /\ \/ fraction[1] > 5
                        \/ /\ fraction[1] = 5
                           /\ \/ \E i \in 2..Len(fraction) : fraction[i] # 0
                              \/ whole # <<>> /\ whole[Len(whole)] % 2 = 1]
      \* scaled * 10^point, the point after Len(scaled) + point digits of scaled
      Split(scaled, point) ==
        Settle(IF point >= 0 THEN scaled \o [i \in 1..point |-> 0]
               ELSE IF Len(scaled) + point <= 0 THEN <<>>
               ELSE SubSeq(scaled, 1, Len(scaled) + point),
               IF point >= 0 THEN <<>>
               ELSE IF Len(scaled) + point <= 0
                 THEN [i \in 1..(0 - (Len(scaled) + point)) |-> 0] \o scaled
               ELSE SubSeq(scaled, Len(scaled) + point + 1, Len(scaled)))
  IN Split(TimesPower(digits, IF e <= 0 THEN 2 ELSE 5, IF e <= 0 THEN 0 - e ELSE e),
           IF e <= 0 THEN k ELSE k - e)

\* The double nearest to digits * 10^k, for digits > 0: value / 2^e is rounded
\* to the nearest whole number, to the even one of two equally near.  The
\* search for the exponent starts below it: a decimal digit is a little more
\* than 3.321 binary digits.
RoundToDouble(neg, digits, k) ==
  LET guess == ((((Len(digits) - 1) + k) * 3321) \div 1000) - 54
  IN MakeDouble(neg, Scale(digits, k, IF guess < -1074 THEN -1074 ELSE guess))

\* The Number of digits * 10^k.  A value of 10^309 or more is beyond the
\* largest double and a value below 10^-324 is nearer to 0 than to the
\* smallest double, whatever the digits are; a whole number below 2^53 is a
\* double.
DecimalToNumber(neg, digits, k) ==
  LET whole == digits \o [i \in 1..k |-> 0]
  IN IF digits = <<>> THEN Zero(neg)
     ELSE IF (Len(digits) - 1) + k >= 309 THEN Infinity(neg)
     ELSE IF Len(digits) + k <= -324 THEN Zero(neg)
     ELSE IF k >= 0 /\ BigLess(whole, Pow2To53)
       THEN [inf |-> FALSE, neg |-> neg, digits |-> whole, exp |-> 0]
     ELSE RoundToDouble(neg, digits, k)

\* The Number of digits of the radix 2, 8 or 16.  Each digit is 1, 3 or 4
\* binary digits; the first 53 binary digits from the first 1 are the
\* mantissa, rounded by the binary digits after them.
BinaryToNumber(s, radix) ==
  LET value(c) == (CHOOSE v \in DOMAIN HexChars : c \in Range(HexChars[v])) - 1
      bit(v, n) == IF n = 0 THEN v % 2 ELSE IF n = 1 THEN (v \div 2) % 2
                   ELSE IF n = 2 THEN (v \div 4) % 2 ELSE (v \div 8) % 2
      Bits(width) ==
        [i \in 1..(width * Len(s)) |->
           bit(value(s[((i - 1) \div width) + 1]), (width - 1) - ((i - 1) % width))]
      RECURSIVE FromBits(_, _)
      FromBits(a, b) ==
        IF b = <<>> THEN a
        ELSE IF Len(b) = 1 THEN DoublePlus(a, b[1])
        ELSE FromBits(FromBits(a, SubSeq(b, 1, Len(b) \div 2)),
                      SubSeq(b, (Len(b) \div 2) + 1, Len(b)))
      \* the mantissa is the kept binary digits from position first; the
      \* nearest whole number is the next one when the digits after them are
      \* more than a half, or a half and the mantissa is odd
      Rounded(bits, first, kept, after) ==
        [e |-> ((Len(bits) - first) + 1) - kept,
         whole |-> FromBits(<<>>, SubSeq(bits, first, (first + kept) - 1)),
         up |-> /\ after # <<>>
                /\ after[1] = 1
                /\ \/ \E i \in 2..Len(after) : after[i] = 1
                   \/ bits[(first + kept) - 1] = 1]
      Kept(bits, first, kept) ==
        Rounded(bits, first, kept, SubSeq(bits, first + kept, Len(bits)))
      Significant(bits, first) ==
        Kept(bits, first, IF (Len(bits) - first) + 1 <= 53 THEN (Len(bits) - first) + 1 ELSE 53)
      Mantissa(bits) ==
        IF \A i \in DOMAIN bits : bits[i] = 0 THEN [e |-> 0, whole |-> <<>>, up |-> FALSE]
        ELSE Significant(bits, CHOOSE i \in DOMAIN bits :
                                 bits[i] = 1 /\ \A j \in 1..(i - 1) : bits[j] = 0)
  IN MakeDouble(FALSE, Mantissa(Bits(IF radix = 16 THEN 4 ELSE IF radix = 8 THEN 3 ELSE 1)))

\* x * 1000
TimesThousand(x) ==
  IF x.inf \/ x.digits = <<>> THEN x ELSE DecimalToNumber(x.neg, x.digits, x.exp + 3)

\* without the StrWhiteSpaceChar at its head
TrimLeft(s) ==
  IF \A i \in DOMAIN s : s[i] \in WhiteSpace THEN <<>>
  ELSE SubSeq(s, CHOOSE i \in DOMAIN s :
                   s[i] \notin WhiteSpace /\ \A j \in 1..(i - 1) : s[j] \in WhiteSpace,
              Len(s))

\* without the StrWhiteSpaceChar at its end
TrimRight(s) ==
  IF \A i \in DOMAIN s : s[i] \in WhiteSpace THEN <<>>
  ELSE SubSeq(s, 1, CHOOSE i \in DOMAIN s :
                      s[i] \notin WhiteSpace /\ \A j \in (i + 1)..Len(s) : s[j] \in WhiteSpace)

\* StrDecimalLiteral: an optional sign, then Infinity or digits with an
\* optional fraction and an optional exponent, a digit at least before or
\* after the point.  The parts of the literal, in a set that is empty when
\* body is not one: its sign, the digits of its mantissa and how many of them
\* follow the point, the sign and the digits of its exponent.
StrDecimalLiteral(body) ==
  LET DigitRun(u, from) ==
        IF \A j \in from..Len(u) : u[j] \in Digits THEN (Len(u) + 1) - from
        ELSE (CHOOSE j \in from..Len(u) :
                u[j] \notin Digits /\ \A i \in from..(j - 1) : u[i] \in Digits) - from
      \* c digits of the exponent from position from: none when there is no
      \* exponent, one at least and to the end of u when there is one
      Exponent(neg, u, mantissa, b, hasExp, expNeg, from, c) ==
        IF hasExp /\ ~(c >= 1 /\ (from + c) - 1 = Len(u)) THEN {}
        ELSE {[inf |-> FALSE, neg |-> neg, mantissa |-> mantissa, fraction |-> b,
               expNeg |-> expNeg,
               exponent |-> StripZeros([i \in 1..c |-> DigitVal(u[(from + i) - 1])])]}
      ExponentAt(neg, u, mantissa, b, hasExp, expNeg, from) ==
        Exponent(neg, u, mantissa, b, hasExp, expNeg, from,
                 IF hasExp THEN DigitRun(u, from) ELSE 0)
      \* after the mantissa, which ends at position p: nothing, or e or E, an
      \* optional sign and the digits of the exponent
      AfterMantissa(neg, u, mantissa, b, p, hasExp, expSigned) ==
        IF ~hasExp /\ p # Len(u) THEN {}
        ELSE ExponentAt(neg, u, mantissa, b, hasExp, expSigned /\ u[p + 2] = "-",
                        p + 2 + (IF expSigned THEN 1 ELSE 0))
      Signs(neg, u, mantissa, b, p, hasExp) ==
        AfterMantissa(neg, u, mantissa, b, p, hasExp,
                      hasExp /\ p + 1 < Len(u) /\ u[p + 2] \in {"+", "-"})
      Ends(neg, u, mantissa, b, p) ==
        Signs(neg, u, mantissa, b, p, p < Len(u) /\ u[p + 1] \in {"e", "E"})
      \* a digits, then a point and b digits when hasDot
      Mantissa(neg, u, a, hasDot, b) ==
        IF a + b < 1 THEN {}
        ELSE Ends(neg, u,
                  StripZeros([i \in 1..(a + b) |->
                                DigitVal(IF i <= a THEN u[i] ELSE u[i + 1])]),
                  b, a + (IF hasDot THEN 1 + b ELSE 0))
      Fraction(neg, u, a, hasDot) ==
        Mantissa(neg, u, a, hasDot, IF hasDot THEN DigitRun(u, a + 2) ELSE 0)
      Whole(neg, u, a) == Fraction(neg, u, a, a < Len(u) /\ u[a + 1] = ".")
      Unsigned(neg, u) ==
        IF u = <<"I","n","f","i","n","i","t","y">>
          THEN {[inf |-> TRUE, neg |-> neg, mantissa |-> <<>>, fraction |-> 0,
                 expNeg |-> FALSE, exponent |-> <<>>]}
        ELSE Whole(neg, u, DigitRun(u, 1))
  IN Unsigned(body[1] = "-", IF body[1] \in {"+", "-"} THEN Tail(body) ELSE body)

\* StringNumericValue of a StrDecimalLiteral: mantissa * 10^(exponent - fraction).
\* An exponent of ten digits or more exceeds every length a mantissa can have.
StringNumericValue(literal) ==
  IF literal.inf THEN Infinity(literal.neg)
  ELSE IF literal.mantissa = <<>> THEN Zero(literal.neg)
  ELSE IF Len(literal.exponent) >= 10
    THEN (IF literal.expNeg THEN Zero(literal.neg) ELSE Infinity(literal.neg))
  ELSE DecimalToNumber(literal.neg, literal.mantissa,
         (IF literal.expNeg THEN 0 - DigitsValue(literal.exponent)
          ELSE DigitsValue(literal.exponent)) - literal.fraction)

\* Number(s) of a string (StringToNumber of ECMAScript): the empty set for NaN.
\* A NonDecimalIntegerLiteral is 0x, 0o or 0b in either case, then digits of
\* the radix; it takes no sign.
StringToNumber(s) ==
  LET body == TrimRight(TrimLeft(s))
      Radix(prefix) ==
        IF Len(prefix) < 2 \/ prefix[1] # "0" THEN 0
        ELSE IF prefix[2] \in {"x", "X"} THEN 16
        ELSE IF prefix[2] \in {"o", "O"} THEN 8
        ELSE IF prefix[2] \in {"b", "B"} THEN 2 ELSE 0
      IsDigits(rest, radix) ==
        rest # <<>> /\ \A i \in DOMAIN rest : \E v \in 1..radix : rest[i] \in Range(HexChars[v])
  IN IF body = <<>> THEN {Zero(FALSE)}
     ELSE IF Radix(body) = 0
       THEN {StringNumericValue(literal) : literal \in StrDecimalLiteral(body)}
     ELSE IF IsDigits(SubSeq(body, 3, Len(body)), Radix(body))
       THEN {BinaryToNumber(SubSeq(body, 3, Len(body)), Radix(body))}
     ELSE {}

(***************************************************************************)
(* The error classifier of prompt-retry.ts.                                *)
(***************************************************************************)
\* the first non-empty string among keys looked up on nested, then on outer
RECURSIVE FirstStringNested(_, _, _)
FirstStringNested(keys, nested, outer) ==
  IF keys = <<>> THEN {}
  ELSE LET value == Nullish(Prop(nested, keys[1]), Prop(outer, keys[1]))
       IN IF value.t = "string" /\ value.s # <<>> THEN {value.s}
          ELSE FirstStringNested(Tail(keys), nested, outer)

\* the first non-empty string among keys looked up on obj
RECURSIVE FirstString(_, _)
FirstString(keys, obj) ==
  IF keys = <<>> THEN {}
  ELSE LET value == Prop(obj, keys[1])
       IN IF value.t = "string" /\ value.s # <<>> THEN {value.s}
          ELSE FirstString(Tail(keys), obj)

NestedKeys == <<"message", "error", "type", "code">>

DirectKeys == <<"message", "error", "code", "reason", "type">>

TheOne(S) == CHOOSE x \in S : TRUE

extractErrorMessage(err) ==
  IF err.t \in {"null", "undefined"} THEN <<>>
  ELSE IF err.t = "string" THEN err.s
  ELSE IF err.isError /\ err.s # <<>> THEN err.s
  ELSE IF err.t = "object"
    THEN IF Prop(err, "error").t = "object"
           THEN LET found == FirstStringNested(NestedKeys, Prop(err, "error"), err)
                IN IF found # {} THEN TheOne(found)
                   ELSE JsonStringify(Prop(err, "error"))
         ELSE LET found == FirstString(DirectKeys, err)
              IN IF found # {} THEN TheOne(found) ELSE JsonStringify(err)
  ELSE StringOf(err)

\* the status property of an object as a number, when it holds one
StatusOf(obj) ==
  LET status == Prop(obj, "status")
  IN IF status.t = "number" THEN {JsNumber(status.n)}
     ELSE IF status.t = "string" THEN StringToNumber(status.s)
     ELSE {}

\* /HTTP[^\d]*(\d{3})/i
HttpCodePrefix == Lit(<<"h","t","t","p">>) \o <<NotCls(Digits, "*")>>

\* the status code of an error: the empty set when there is none
extractStatusCode(err) ==
  LET First(own, nested, inMessage) ==
        IF own # {} THEN own ELSE IF nested # {} THEN nested ELSE inMessage
  IN IF err.t # "object" THEN {}
     ELSE First(StatusOf(err),
                IF Prop(err, "error").t = "object" THEN StatusOf(Prop(err, "error")) ELSE {},
                UNION {StringToNumber(match) :
                         match \in MatchDigits(HttpCodePrefix, 3, extractErrorMessage(err))})

retryableCodes == {429, 500, 502, 503, 504}

\* mutant: every client and server error code is retryable
isRetryableStatusCode_AnyFailure(code) ==
  ~code.inf /\ ~code.neg /\ code.exp = 0 /\ Len(code.digits) = 3 /\ code.digits[1] >= 4

isRetryableStatusCode(code) == code \in {JsNumber(listed) : listed \in retryableCodes}

\* isRateLimitErrorMessage of pi-embedded-helpers/errors.js, on the lowered
\* message: the rate-limit and overload substrings spec.md section 4.1 lists
RateLimitSubstrings ==
  { <<"r","a","t","e"," ","l","i","m","i","t">>, <<"t","o","o"," ","m","a","n","y"," ","r","e","q","u","e","s","t","s">>, <<"t","h","r","o","t","t","l","e">>, <<"4","2","9">>, <<"t","p","m">>,
    <<"t","o","k","e","n","s"," ","p","e","r"," ","m","i","n","u","t","e">>, <<"q","u","o","t","a"," ","e","x","c","e","e","d","e","d">>, <<"r","e","s","o","u","r","c","e"," ","e","x","h","a","u","s","t","e","d">>,
    <<"o","v","e","r","l","o","a","d","e","d">> }

isRateLimitErrorMessage(msg) == \E sub \in RateLimitSubstrings : Includes(msg, sub)

sdkErrorTypes ==
  { <<"r","a","t","e","_","l","i","m","i","t","_","e","r","r","o","r">>, <<"r","a","t","e","_","l","i","m","i","t","_","e","x","c","e","e","d","e","d">>, <<"o","v","e","r","l","o","a","d","e","d","_","e","r","r","o","r">>,
    <<"t","h","r","o","t","t","l","i","n","g","_","e","x","c","e","p","t","i","o","n">>, <<"r","e","s","o","u","r","c","e","_","e","x","h","a","u","s","t","e","d">>,
    <<"r","e","s","o","u","r","c","e","_","h","a","s","_","b","e","e","n","_","e","x","h","a","u","s","t","e","d">>, <<"t","o","k","e","n","s","_","p","e","r","_","m","i","n","u","t","e">> }

chineseErrorPatterns ==
  { <<"u8BF7","u6C42","u989D","u5EA6","u8D85","u9650">>, <<"u8BF7","u6C42","u9891","u7387","u8D85","u9650">>, <<"u9650","u6D41">>, <<"u901F","u7387","u9650","u5236">> }

\* An optional group that ends a pattern, (?:exceeded|error)?, changes no
\* test() result and is left out.  An alternation is one pattern per branch.
formattedErrorPatterns ==
  { Lit(<<"a","p","i">>) \o OptSep \o Lit(<<"r","a","t","e">>) \o OptSep \o Lit(<<"l","i","m","i","t">>),
    Lit(<<"a","p","i"," ","r","a","t","e"," ","l","i","m","i","t"," ","r","e","a","c","h","e","d">>),
    Lit(<<"t","o","o">>) \o OptSep \o Lit(<<"m","a","n","y">>) \o OptSep \o Lit(<<"r","e","q","u","e","s","t">>)
      \o <<Cls({"s"}, "?")>>,
    Lit(<<"t","p","m">>) \o OptSep \o Lit(<<"l","i","m","i","t">>),
    Lit(<<"t","o","k","e","n","s"," ","p","e","r"," ","m","i","n","u","t","e">>),
    Lit(<<"r","a","t","e">>) \o OptSep \o Lit(<<"l","i","m","i","t">>) \o OptSep,
    Lit(<<"o","v","e","r","l","o","a","d","e","d">>),
    Lit(<<"s","e","r","v","i","c","e">>) \o OptSep \o Lit(<<"u","n","a","v","a","i","l","a","b","l","e">>),
    Lit(<<"s","e","r","v","i","c","e">>) \o OptSep \o Lit(<<"t","e","m","p","o","r","a","r","i","l","y">>) \o OptSep
      \o Lit(<<"o","v","e","r","l","o","a","d","e","d">>),
    Lit(<<"u8BF7">>),
    Lit(<<"u91CD","u8BD5">>) }

httpErrorPatterns ==
  { <<WordBoundary>> \o Lit(<<"5","0","2">>) \o <<WordBoundary>> \o AnyStar
      \o <<WordBoundary>> \o Lit(<<"b","a","d">>) \o Spaces \o Lit(<<"g","a","t","e","w","a","y">>)
      \o <<WordBoundary>>,
    <<WordBoundary>> \o Lit(<<"5","0","3">>) \o <<WordBoundary>> \o AnyStar
      \o <<WordBoundary>> \o Lit(<<"s","e","r","v","i","c","e">>) \o Spaces \o Lit(<<"u","n","a","v","a","i","l","a","b","l","e">>),
    <<WordBoundary>> \o Lit(<<"5","0","3">>) \o <<WordBoundary>> \o AnyStar
      \o <<WordBoundary>> \o Lit(<<"s","e","r","v","i","c","e">>) \o Spaces \o Lit(<<"t","e","m","p","o","r","a","r","i","l","y">>)
      \o Spaces \o Lit(<<"o","v","e","r","l","o","a","d","e","d">>) }

\* mutant: every failure is retryable
isRetryableError_Always(err) == TRUE

\* mutant: only the status code is consulted
isRetryableError_StatusOnly(err) ==
  LET statusCode == extractStatusCode(err)
  IN statusCode # {} /\ isRetryableStatusCode(TheOne(statusCode))

isRetryableError(err) ==
  LET statusCode == extractStatusCode(err)
      msg == ToLowerCase(extractErrorMessage(err))
  IN \/ statusCode # {} /\ isRetryableStatusCode(TheOne(statusCode))
     \/ isRateLimitErrorMessage(msg)
     \/ \E type \in sdkErrorTypes : Includes(msg, type)
     \/ \E pattern \in chineseErrorPatterns : Includes(msg, pattern)
     \/ \E pattern \in formattedErrorPatterns : RegexTest(pattern, msg)
     \/ \E pattern \in httpErrorPatterns : RegexTest(pattern, msg)

\* mutant: the seconds of the retry_after property are not converted
RetryAfterOf_Seconds(obj) ==
  LET hint == Prop(obj, "retry_after")
  IN IF hint.t = "number" THEN {JsNumber(hint.n)}
     ELSE IF hint.t = "string" THEN StringToNumber(hint.s)
     ELSE {}

\* the retry_after property of an object in milliseconds, when it holds a number
RetryAfterOf(obj) ==
  LET hint == Prop(obj, "retry_after")
  IN {TimesThousand(seconds) :
        seconds \in IF hint.t = "number" THEN {JsNumber(hint.n)}
                    ELSE IF hint.t = "string" THEN StringToNumber(hint.s)
                    ELSE {}}

\* /retry_after[:\s]*(\d+)/i
RetryAfterUnderscore == Lit(<<"r","e","t","r","y","_","a","f","t","e","r">>) \o <<Cls({":"} \cup WhiteSpace, "*")>>

\* /retry\s*after[:\s]*(\d+)/i
RetryAfterWords ==
  Lit(<<"r","e","t","r","y">>) \o Spaces \o Lit(<<"a","f","t","e","r">>) \o <<Cls({":"} \cup WhiteSpace, "*")>>

\* mutant: only the retry_after property of the error itself is read
getRetryAfterMs_DirectOnly(err) == IF err.t = "object" THEN RetryAfterOf(err) ELSE {}

\* the provider's retry hint in milliseconds: the empty set when there is none
getRetryAfterMs(err) ==
  LET msg == extractErrorMessage(err)
      First(own, nested, inMessage) ==
        IF own # {} THEN own ELSE IF nested # {} THEN nested ELSE inMessage
      Match(first, second) == IF first # {} THEN first ELSE second
  IN First(IF err.t = "object" THEN RetryAfterOf(err) ELSE {},
           IF err.t = "object" /\ Prop(err, "error").t = "object"
             THEN RetryAfterOf(Prop(err, "error"))
           ELSE {},
           {TimesThousand(seconds) :
              seconds \in UNION {StringToNumber(match) :
                                   match \in Match(MatchDigits(RetryAfterUnderscore, 0, msg),
                                                   MatchDigits(RetryAfterWords, 0, msg))}})

\* mutant: a provider without a retry record gets the record of another
getRetryConfig_AnyProvider(provider, config) ==
  IF config = {} THEN {}
  ELSE LET given == TheOne(config)
       IN IF "models" \notin DOMAIN given THEN {}
          ELSE IF "providers" \notin DOMAIN given.models THEN {}
          ELSE LET providers == given.models.providers
                   records == {providers[name].retry :
                                 name \in {n \in DOMAIN providers :
                                             "retry" \in DOMAIN providers[n]}}
               IN IF provider \in DOMAIN providers
                       /\ "retry" \in DOMAIN providers[provider]
                    THEN {providers[provider].retry}
                  ELSE IF records = {} THEN {}
                  ELSE {TheOne(records)}

\* config?.models?.providers?.[provider]?.retry: a configuration is a function
\* from the names it defines to their values, each level possibly absent.  The
\* config argument and the result are sets holding the value, empty for
\* undefined.
getRetryConfig(provider, config) ==
  IF config = {} THEN {}
  ELSE LET given == TheOne(config)
       IN IF "models" \notin DOMAIN given THEN {}
          ELSE IF "providers" \notin DOMAIN given.models THEN {}
          ELSE IF provider \notin DOMAIN given.models.providers THEN {}
          ELSE IF "retry" \notin DOMAIN given.models.providers[provider] THEN {}
          ELSE {given.models.providers[provider].retry}

(***************************************************************************)
(* Inputs of the model.                                                    *)
(***************************************************************************)
\* the largest attempts value of the generated retry configurations
MaxAttempts == 4

\* the errors the operation may throw
SampleErrors ==
  << ErrorObj(<<"I","n","v","a","l","i","d"," ","A","P","I"," ","k","e","y">>, <<>>),
     ErrorObj(<<"R","a","t","e"," ","l","i","m","i","t"," ","e","x","c","e","e","d","e","d",":"," ","T","P","M"," ","l","i","m","i","t">>, <<>>),
     ErrorObj(<<"4","2","9",":"," ","T","o","o"," ","M","a","n","y"," ","R","e","q","u","e","s","t","s"," ","-"," ","T","P","M"," ","l","i","m","i","t">>, <<>>),
     Obj(<<P("status", Num(429)), P("retry_after", Num(2)),
           P("message", Str(<<"R","a","t","e"," ","l","i","m","i","t"," ","e","x","c","e","e","d","e","d">>))>>),
     Obj(<<P("error", Obj(<<P("type", Str(<<"r","a","t","e","_","l","i","m","i","t","_","e","r","r","o","r">>)),
                            P("retry_after", Num(5))>>))>>),
     Obj(<<P("status", Num(429)),
           P("message", Str(<<"R","e","q","u","e","s","t"," ","w","a","s"," ","t","h","r","o","t","t","l","e","d","."," ","P","l","e","a","s","e"," ","r","e","t","r","y"," ","a","f","t","e","r"," ","1"," ","s","e","c","o","n","d",".">>))>>),
     ErrorObj(<<"Q","u","o","t","a"," ","c","h","e","c","k"," ","f","a","i","l","e","d",","," ","r","e","t","r","y","_","a","f","t","e","r",":"," ","3","0">>, <<>>) >>

ErrorIds == DOMAIN SampleErrors

\* the values the operation may resolve with
ResultValues == {"success", "other"}

\* A retry configuration (OutboundRetryConfig) is a record of the fields it
\* defines; jitter is held in percent (0.2 is 20).
TestDelays == [minDelayMs |-> 0, maxDelayMs |-> 1000]

CappedDelays == [minDelayMs |-> 1000, maxDelayMs |-> 2000]

Merge(f, g) == f @@ g

RetryConfigs ==
  \* the configurations of the tests and of the backoff example, every attempts value
  { Merge([attempts |-> a, jitter |-> 0], d) :
      a \in 1..MaxAttempts, d \in {TestDelays, CappedDelays} }
  \* jittered backoff
  \cup { [attempts |-> a, minDelayMs |-> 1000, maxDelayMs |-> 3000, jitter |-> 50] :
           a \in 1..MaxAttempts }
  \* the backoff example of spec.md section 8, long enough to stay at its cap
  \cup { [attempts |-> 7, minDelayMs |-> 1000, maxDelayMs |-> 10000, jitter |-> 0] }
  \* omitted fields, down to the empty record
  \cup { <<>>, [attempts |-> 2], [jitter |-> 0], [minDelayMs |-> 500],
         [maxDelayMs |-> 1500, jitter |-> 0],
         [minDelayMs |-> 2000, maxDelayMs |-> 1000, jitter |-> 0] }

\* the retryConfig argument: given is FALSE for undefined
NoRetryConfig == [given |-> FALSE, cfg |-> <<>>]

RetryConfigArgs == {NoRetryConfig} \cup {[given |-> TRUE, cfg |-> c] : c \in RetryConfigs}

\* the calls of runWithPromptRetry the model follows
Calls == {1, 2}

(***************************************************************************)
(* runWithPromptRetry: what it hands to retryAsync.                        *)
(***************************************************************************)
\* mutant: the absence of a retryConfig does not disable retry
retryEnabled_Always(retryConfig) == TRUE

\* !retryConfig is false
retryEnabled(retryConfig) == retryConfig.given

\* mutant: the configured attempts are ignored
attemptsOf_Default(cfg) == 3

\* retryConfig.attempts ?? 3
attemptsOf(cfg) == IF "attempts" \in DOMAIN cfg THEN cfg.attempts ELSE 3

\* mutant: the configured minDelayMs is ignored
minDelayMsOf_Default(cfg) == 1000

\* retryConfig.minDelayMs ?? 1000
minDelayMsOf(cfg) == IF "minDelayMs" \in DOMAIN cfg THEN cfg.minDelayMs ELSE 1000

\* mutant: the configured maxDelayMs is ignored
maxDelayMsOf_Default(cfg) == 60000

\* retryConfig.maxDelayMs ?? 60000
maxDelayMsOf(cfg) == IF "maxDelayMs" \in DOMAIN cfg THEN cfg.maxDelayMs ELSE 60000

\* mutant: an omitted jitter is no jitter
jitterOf_Omitted(cfg) == IF "jitter" \in DOMAIN cfg THEN cfg.jitter ELSE 0

\* retryConfig.jitter ?? 0.2, in percent
jitterOf(cfg) == IF "jitter" \in DOMAIN cfg THEN cfg.jitter ELSE 20

\* mutant: the attempts are not handed to retryAsync, which then never gives up
retryOptions_Unlimited(cfg) ==
  [ attempts |-> 2147483647, minDelayMs |-> minDelayMsOf(cfg),
    maxDelayMs |-> maxDelayMsOf(cfg), jitter |-> jitterOf(cfg) ]

\* the options object of the retryAsync call
retryOptions(cfg) ==
  [ attempts |-> attemptsOf(cfg), minDelayMs |-> minDelayMsOf(cfg),
    maxDelayMs |-> maxDelayMsOf(cfg), jitter |-> jitterOf(cfg) ]

\* shouldRetry: isRetryableError
shouldRetry(e) == isRetryableError(SampleErrors[e])

\* retryAfterMs: getRetryAfterMs
retryAfterMs(e) == getRetryAfterMs(SampleErrors[e])

\* The classification of every sample error, computed once.
RetryableIds == {e \in ErrorIds : shouldRetry(e)}

RetryAfterById == [e \in ErrorIds |-> retryAfterMs(e)]

\* mutant: the line names the attempt to come, not the one that failed
onRetry_NextAttempt(info) ==
  [attempt |-> info.attempt + 1, maxAttempts |-> info.maxAttempts,
   delayMs |-> info.delayMs]

\* the record onRetry logs: attempt=<attempt>/<maxAttempts> delay=<delayMs>ms
onRetry(info) == [attempt |-> info.attempt, maxAttempts |-> info.maxAttempts,
                  delayMs |-> info.delayMs]

(***************************************************************************)
(* retryAsync, after spec.md section 4.2.                                  *)
(***************************************************************************)
Min(a, b) == IF a <= b THEN a ELSE b

Max(a, b) == IF a >= b THEN a ELSE b

RECURSIVE Pow2(_)
Pow2(n) == IF n <= 0 THEN 1 ELSE 2 * Pow2(n - 1)

\* step 3: the failure of attempt i ends the call
isTerminal(options, i, e) == e \notin RetryableIds \/ i >= options.attempts

\* step 4: delay = min(maxDelayMs, minDelayMs * 2^(i-1))
backoffDelay(options, i) == Min(options.maxDelayMs, options.minDelayMs * Pow2(i - 1))

\* the draws of U, in percent: the ends and the middle of [-jitter, +jitter]
JitterDraws(options) == {0 - options.jitter, 0, options.jitter}

\* step 4: round(delay * (1 + U)) clamped to >= 0; Math.round rounds halves up
applyJitter(delay, u) == Max(0, (2 * delay * (100 + u) + 100) \div 200)

\* step 4: the provider's hint if present, else the jittered backoff
computeDelay(options, i, e, u) ==
  IF RetryAfterById[e] # {} THEN DigitsValue(TheOne(RetryAfterById[e]).digits)
  ELSE applyJitter(backoffDelay(options, i), u)

(***************************************************************************)
(* State.  Every variable is a function of the call.                       *)
(***************************************************************************)
VARIABLES
  pc,           \* "unused", "idle" (not yet called), "attempt" (the operation is
                \* in flight, or has settled and the call has not yet taken its
                \* next step), "wait" (the inter-attempt sleep), "done"
  retryConfig,  \* the retryConfig argument
  hasSignal,    \* whether a signal argument was passed
  aborted,      \* signal.aborted
  attempt,      \* retryAsync's attempt index
  lastErr,      \* the error retryAsync caught last (an error id, 0 for none)
  delayMs,      \* the length of the sleep in progress
  result,       \* how the call's promise settled
  invocations,  \* history: the outcome of every invocation of the operation
  waits,        \* history: every sleep started, with the attempt that failed
  retryLog,     \* history: the lines onRetry logged
  firedAt,      \* history: where the call stood when its signal fired
  passedOptions, \* the options object handed to retryAsync
  _provider,    \* the _provider argument
  _modelId      \* the _modelId argument

\* The exported and the internal functions, applied on their own.
VARIABLES
  errCase,      \* the error value handed to the classifier
  verdict,      \* what the classifier's functions returned for it
  lookupCase,   \* the arguments of a getRetryConfig call
  lookupResult  \* what getRetryConfig returned for them

\* the arguments runWithPromptRetry does not read
unusedArgs == <<_provider, _modelId>>

callVars == <<pc, retryConfig, hasSignal, aborted, attempt, lastErr, delayMs, result,
              invocations, waits, retryLog, firedAt, passedOptions, unusedArgs>>

functionVars == <<errCase, verdict, lookupCase, lookupResult>>

vars == <<callVars, functionVars>>

Pending == [kind |-> "pending", val |-> "", err |-> 0]

Resolved(v) == [kind |-> "value", val |-> v, err |-> 0]

Rejected(e) == [kind |-> "error", val |-> "", err |-> e]

\* the failure of an aborted sleep
AbortFailure == [kind |-> "abort", val |-> "", err |-> 0]

\* the outcome of one invocation of the operation
Success(v) == [ok |-> TRUE, val |-> v, err |-> 0]

Failure(e) == [ok |-> FALSE, val |-> "", err |-> e]

InFlight == [ok |-> FALSE, val |-> "", err |-> 0]

\* a value passed for _provider or _modelId: a string, nothing, or, as the tests
\* pass in the place of _provider, a retry configuration
NameArg(name) == [kind |-> "string", name |-> name, cfg |-> <<>>]

UndefinedArg == [kind |-> "undefined", name |-> "", cfg |-> <<>>]

ConfigArg(cfg) == [kind |-> "object", name |-> "", cfg |-> cfg]

DefaultProviderArg == NameArg("theta")

DefaultModelIdArg == NameArg("claude-4-20250514")

\* retryAsync has not been called
NoOptions == [attempts |-> 0, minDelayMs |-> 0, maxDelayMs |-> 0, jitter |-> 0]

\* no function has been applied
NoErrorCase == [kind |-> "none", status |-> "none", retryAfter |-> "none",
                msg |-> "none", nested |-> "none"]

NoVerdict == [done |-> FALSE, message |-> <<>>, status |-> {}, retryable |-> FALSE,
              retryAfter |-> {}]

NoLookupCase == [provider |-> "none", depth |-> "none", first |-> "missing",
                 second |-> "missing"]

NoLookupResult == [done |-> FALSE, retry |-> {}]

\* one call about to be made, with any retryConfig and with or without a signal
Init ==
  /\ pc = [c \in Calls |-> IF c = 1 THEN "idle" ELSE "unused"]
  /\ retryConfig \in [Calls -> RetryConfigArgs]
  /\ retryConfig[2] = NoRetryConfig
  /\ hasSignal \in [Calls -> BOOLEAN]
  /\ hasSignal[2] = FALSE
  \* the seven attempts of the backoff example are followed without a signal
  /\ retryConfig[1].given /\ attemptsOf(retryConfig[1].cfg) = 7 => ~hasSignal[1]
  /\ aborted = [c \in Calls |-> FALSE]
  /\ attempt = [c \in Calls |-> 0]
  /\ lastErr = [c \in Calls |-> 0]
  /\ delayMs = [c \in Calls |-> 0]
  /\ result = [c \in Calls |-> Pending]
  /\ invocations = [c \in Calls |-> <<>>]
  /\ waits = [c \in Calls |-> <<>>]
  /\ retryLog = [c \in Calls |-> <<>>]
  /\ firedAt = [c \in Calls |-> "never"]
  /\ passedOptions = [c \in Calls |-> NoOptions]
  /\ _provider = [c \in Calls |-> DefaultProviderArg]
  /\ _modelId = [c \in Calls |-> DefaultModelIdArg]
  /\ errCase = NoErrorCase
  /\ verdict = NoVerdict
  /\ lookupCase = NoLookupCase
  /\ lookupResult = NoLookupResult

\* mutant: a retry configuration passed in the place of _provider is used
options_FromProvider(c) ==
  IF _provider[c].kind = "object" /\ passedOptions[c] # NoOptions
    THEN retryOptions(_provider[c].cfg)
  ELSE passedOptions[c]

\* mutant: the options live in one place that every call reads
options_Shared(c) == passedOptions[1]

\* the options retryAsync runs the call with
options(c) == passedOptions[c]

\* mutant: the signal is not handed to retryAsync
signalAborted_NotPassed(c) == FALSE

\* signal: the aborted flag of the signal handed to retryAsync
signalAborted(c) == hasSignal[c] /\ aborted[c]

\* fn() is called: one more invocation, not yet settled
invoke(c) == invocations' = [invocations EXCEPT ![c] = Append(@, InFlight)]

\* the invocation in flight settles
settle(c, outcome) ==
  invocations' = [invocations EXCEPT ![c][Len(invocations[c])] = outcome]

\* mutant: the operation is called once by runWithPromptRetry itself and once
\* more by the first attempt of retryAsync
runWithPromptRetry_CallsTwice(c) ==
  /\ pc[c] = "idle"
  /\ pc' = [pc EXCEPT ![c] = "attempt"]
  /\ attempt' = [attempt EXCEPT ![c] = IF retryEnabled(retryConfig[c]) THEN 1 ELSE 0]
  /\ passedOptions' = [passedOptions EXCEPT ![c] =
                         IF retryEnabled(retryConfig[c])
                           THEN retryOptions(retryConfig[c].cfg) ELSE NoOptions]
  /\ invocations' = [invocations EXCEPT ![c] =
                       IF retryEnabled(retryConfig[c])
                         THEN <<InFlight, InFlight>> ELSE <<InFlight>>]
  /\ UNCHANGED <<functionVars, unusedArgs, retryConfig, hasSignal, aborted, lastErr, delayMs, result,
                 waits, retryLog, firedAt>>

\* runWithPromptRetry is called: without a retryConfig it returns fn(); with one
\* it calls retryAsync, whose first attempt calls fn()
runWithPromptRetry(c) ==
  /\ pc[c] = "idle"
  /\ pc' = [pc EXCEPT ![c] = "attempt"]
  /\ attempt' = [attempt EXCEPT ![c] = IF retryEnabled(retryConfig[c]) THEN 1 ELSE 0]
  /\ passedOptions' = [passedOptions EXCEPT ![c] =
                         IF retryEnabled(retryConfig[c])
                           THEN retryOptions(retryConfig[c].cfg) ELSE NoOptions]
  /\ invoke(c)
  /\ UNCHANGED <<functionVars, unusedArgs, retryConfig, hasSignal, aborted, lastErr, delayMs, result, waits,
                 retryLog, firedAt>>

\* The promise fn returned is fulfilled.  runWithPromptRetry is an async
\* function that returns fn() or retryAsync(...): the promise of the call
\* settles some microtask turns after the promise of fn, and what was attached
\* to the promise of fn (a callback that aborts the signal, or makes another
\* call) runs in between.
fnResolves(c, v) ==
  /\ pc[c] = "attempt"
  /\ invocations[c][Len(invocations[c])] = InFlight
  /\ settle(c, Success(v))
  /\ UNCHANGED <<functionVars, unusedArgs, passedOptions, pc, retryConfig, hasSignal, aborted, attempt, lastErr, delayMs,
                 result, waits, retryLog, firedAt>>

\* the promise fn returned is rejected
fnRejects(c, e) ==
  /\ pc[c] = "attempt"
  /\ invocations[c][Len(invocations[c])] = InFlight
  /\ settle(c, Failure(e))
  /\ UNCHANGED <<functionVars, unusedArgs, passedOptions, pc, retryConfig, hasSignal, aborted, attempt, lastErr, delayMs,
                 result, waits, retryLog, firedAt>>

\* mutant: the operation's error is replaced by a new one
ReturnsWithoutRetry_Wrapped(c) ==
  /\ pc[c] = "attempt"
  /\ ~retryEnabled(retryConfig[c])
  /\ invocations[c][Len(invocations[c])] # InFlight
  /\ LET last == invocations[c][Len(invocations[c])]
     IN result' = [result EXCEPT ![c] =
                     IF last.ok THEN Resolved(last.val) ELSE Rejected(0)]
  /\ pc' = [pc EXCEPT ![c] = "done"]
  /\ UNCHANGED <<functionVars, unusedArgs, passedOptions, retryConfig, hasSignal, aborted, attempt, lastErr, delayMs,
                 invocations, waits, retryLog, firedAt>>

\* return fn() without a retryConfig: the promise of the call settles as the
\* promise of fn has, with its value or with its rejection
ReturnsWithoutRetry(c) ==
  /\ pc[c] = "attempt"
  /\ ~retryEnabled(retryConfig[c])
  /\ invocations[c][Len(invocations[c])] # InFlight
  /\ LET last == invocations[c][Len(invocations[c])]
     IN result' = [result EXCEPT ![c] =
                     IF last.ok THEN Resolved(last.val) ELSE Rejected(last.err)]
  /\ pc' = [pc EXCEPT ![c] = "done"]
  /\ UNCHANGED <<functionVars, unusedArgs, passedOptions, retryConfig, hasSignal, aborted, attempt, lastErr, delayMs,
                 invocations, waits, retryLog, firedAt>>

\* mutant: the loop does not return when an attempt resolves
ResolvesInRetry_KeepsGoing(c) ==
  /\ pc[c] = "attempt"
  /\ retryEnabled(retryConfig[c])
  /\ invocations[c][Len(invocations[c])] # InFlight
  /\ invocations[c][Len(invocations[c])].ok
  /\ result' = [result EXCEPT ![c] =
                  IF attempt[c] < options(c).attempts THEN Pending
                  ELSE Resolved(invocations[c][Len(invocations[c])].val)]
  /\ pc' = [pc EXCEPT ![c] =
              IF attempt[c] < options(c).attempts THEN "wait" ELSE "done"]
  /\ UNCHANGED <<functionVars, unusedArgs, passedOptions, retryConfig, hasSignal, aborted, attempt, lastErr, delayMs,
                 invocations, waits, retryLog, firedAt>>

\* return retryAsync(...): the attempt has resolved, retryAsync returns its
\* value and the promise of the call is fulfilled with it
ResolvesInRetry(c) ==
  /\ pc[c] = "attempt"
  /\ retryEnabled(retryConfig[c])
  /\ invocations[c][Len(invocations[c])] # InFlight
  /\ invocations[c][Len(invocations[c])].ok
  /\ result' = [result EXCEPT ![c] = Resolved(invocations[c][Len(invocations[c])].val)]
  /\ pc' = [pc EXCEPT ![c] = "done"]
  /\ UNCHANGED <<functionVars, unusedArgs, passedOptions, retryConfig, hasSignal, aborted, attempt, lastErr, delayMs,
                 invocations, waits, retryLog, firedAt>>

\* return retryAsync(...): retryAsync catches a failure that ends the call and
\* throws it again, and the promise of the call is rejected with it
RejectsTerminal(c) ==
  /\ pc[c] = "attempt"
  /\ retryEnabled(retryConfig[c])
  /\ invocations[c][Len(invocations[c])] # InFlight
  /\ ~invocations[c][Len(invocations[c])].ok
  /\ LET e == invocations[c][Len(invocations[c])].err
     IN /\ isTerminal(options(c), attempt[c], e)
        /\ lastErr' = [lastErr EXCEPT ![c] = e]
        /\ result' = [result EXCEPT ![c] = Rejected(e)]
  /\ pc' = [pc EXCEPT ![c] = "done"]
  /\ UNCHANGED <<functionVars, unusedArgs, passedOptions, retryConfig, hasSignal, aborted, attempt, delayMs, invocations,
                 waits, retryLog, firedAt>>

\* retryAsync catches a retryable failure with attempts left: it computes the
\* delay (u is the jitter draw), reports it to onRetry and starts the sleep
RejectsRetryable(c, u) ==
  /\ pc[c] = "attempt"
  /\ retryEnabled(retryConfig[c])
  /\ invocations[c][Len(invocations[c])] # InFlight
  /\ ~invocations[c][Len(invocations[c])].ok
  /\ LET e == invocations[c][Len(invocations[c])].err
         delay == computeDelay(options(c), attempt[c], e, u)
     IN /\ ~isTerminal(options(c), attempt[c], e)
        /\ delayMs' = [delayMs EXCEPT ![c] = delay]
        /\ waits' = [waits EXCEPT ![c] =
                       Append(@, [after |-> attempt[c], err |-> e, ms |-> delay])]
        /\ retryLog' = [retryLog EXCEPT ![c] =
                          Append(@, onRetry([attempt |-> attempt[c],
                                             maxAttempts |-> options(c).attempts,
                                             delayMs |-> delay, err |-> e]))]
        /\ lastErr' = [lastErr EXCEPT ![c] = e]
  /\ pc' = [pc EXCEPT ![c] = "wait"]
  /\ UNCHANGED <<functionVars, unusedArgs, passedOptions, retryConfig, hasSignal, aborted, attempt, result, invocations,
                 firedAt>>

\* the sleep ends: the next attempt calls fn()
WaitElapses(c) ==
  /\ pc[c] = "wait"
  /\ ~signalAborted(c)
  /\ attempt' = [attempt EXCEPT ![c] = @ + 1]
  /\ invoke(c)
  /\ pc' = [pc EXCEPT ![c] = "attempt"]
  /\ UNCHANGED <<functionVars, unusedArgs, passedOptions, retryConfig, hasSignal, aborted, lastErr, delayMs, result, waits,
                 retryLog, firedAt>>

\* the sleep is cut short by the signal: the call rejects with the abort failure
WaitAborted(c) ==
  /\ pc[c] = "wait"
  /\ signalAborted(c)
  /\ result' = [result EXCEPT ![c] = AbortFailure]
  /\ pc' = [pc EXCEPT ![c] = "done"]
  /\ UNCHANGED <<functionVars, unusedArgs, passedOptions, retryConfig, hasSignal, aborted, attempt, lastErr, delayMs,
                 invocations, waits, retryLog, firedAt>>

\* the owner of the signal aborts it
SignalAborts(c) ==
  /\ hasSignal[c]
  /\ ~aborted[c]
  /\ pc[c] \in {"idle", "attempt", "wait"}
  /\ aborted' = [aborted EXCEPT ![c] = TRUE]
  /\ firedAt' = [firedAt EXCEPT ![c] = pc[c]]
  /\ UNCHANGED <<functionVars, unusedArgs, passedOptions, pc, retryConfig, hasSignal, attempt, lastErr, delayMs, result,
                 invocations, waits, retryLog>>

Next ==
  \E c \in Calls :
    \/ runWithPromptRetry(c)
    \/ \E v \in ResultValues : fnResolves(c, v)
    \/ \E e \in ErrorIds : fnRejects(c, e)
    \/ ReturnsWithoutRetry(c)
    \/ ResolvesInRetry(c)
    \/ RejectsTerminal(c)
    \/ \E u \in JitterDraws(options(c)) : RejectsRetryable(c, u)
    \/ WaitElapses(c)
    \/ WaitAborted(c)
    \/ SignalAborts(c)

Spec == Init /\ [][Next]_vars

(***************************************************************************)
(* Properties.                                                             *)
(***************************************************************************)
\* a field of the retry configuration as the caller wrote it, or the documented
\* default
Configured(c, name, default) ==
  IF name \in DOMAIN retryConfig[c].cfg THEN retryConfig[c].cfg[name] ELSE default

ConfiguredAttempts(c) == Configured(c, "attempts", 3)

WithConfig(c) == retryConfig[c].given

Started(c) == pc[c] \in {"attempt", "wait", "done"}

Count(c) == Len(invocations[c])

\* the sample errors that are rate-limit failures (every one retryable), and
\* those that are not retryable
RateLimitErrorIds == {2, 3, 4, 5, 6}

FatalErrorIds == {1, 7}

\* the sample rate-limit failures that carry no retry_after hint
UnhintedErrorIds == {2, 3}

FailedWith(c, k, ids) == ~invocations[c][k].ok /\ invocations[c][k].err \in ids

\* C1: a call made with a retry configuration invokes the operation at least
\* once and at most `attempts` times, whatever the operation's outcomes.
C1_InvocationsBounded ==
  \A c \in Calls :
    WithConfig(c) /\ Started(c) => Count(c) >= 1 /\ Count(c) <= ConfiguredAttempts(c)

\* C1 witness: a call that used all of its four attempts
C1_Witness ==
  \E c \in Calls :
    /\ WithConfig(c) /\ pc[c] = "done"
    /\ ConfiguredAttempts(c) = 4 /\ Count(c) = 4

\* C2: when attempts 1..k-1 fail with retryable errors and attempt k <= attempts
\* resolves, the operation has been invoked exactly k times and is never
\* invoked again: a resolved invocation is always the last one.  From then on
\* the call is pending at that attempt, without a wait, until it returns, and
\* what it returns is that value.
C2_SuccessEndsCall ==
  \A c \in Calls : \A k \in 1..Count(c) :
    ( /\ WithConfig(c)
      /\ k <= ConfiguredAttempts(c)
      /\ invocations[c][k].ok
      /\ \A j \in 1..(k - 1) : FailedWith(c, j, RateLimitErrorIds) )
    => /\ Count(c) = k
       /\ Len(waits[c]) = k - 1
       /\ \/ pc[c] = "attempt" /\ result[c] = Pending
          \/ pc[c] = "done" /\ result[c] = Resolved(invocations[c][k].val)

\* C2 witness: two rate-limit failures, then a success on the third attempt
C2_Witness ==
  \E c \in Calls :
    /\ WithConfig(c) /\ Count(c) = 3
    /\ FailedWith(c, 1, RateLimitErrorIds) /\ FailedWith(c, 2, RateLimitErrorIds)
    /\ invocations[c][3].ok
    /\ pc[c] = "done" /\ result[c] = Resolved("success")

\* C3: when the operation fails with a non-retryable error, exactly one attempt
\* occurs and no wait is taken: the call is pending at that attempt until it
\* rejects, and it rejects with that same error.
C3_FatalErrorNotRetried ==
  \A c \in Calls :
    WithConfig(c) /\ Count(c) >= 1 /\ FailedWith(c, 1, FatalErrorIds)
    => /\ Count(c) = 1
       /\ waits[c] = <<>>
       /\ \/ pc[c] = "attempt" /\ result[c] = Pending
          \/ pc[c] = "done" /\ result[c] = Rejected(invocations[c][1].err)

\* C3 witness: "Invalid API key" under a configuration that allows four attempts
C3_Witness ==
  \E c \in Calls :
    /\ WithConfig(c) /\ ConfiguredAttempts(c) = 4
    /\ Count(c) = 1 /\ FailedWith(c, 1, {1})
    /\ pc[c] = "done" /\ result[c] = Rejected(1)

\* C4: when every attempt fails with a retryable error and the signal never
\* fires, exactly `attempts` attempts occur and the call rejects with the error
\* of the last attempt.
C4_ExhaustedThrowsLastError ==
  \A c \in Calls :
    ( /\ WithConfig(c) /\ pc[c] = "done" /\ ~aborted[c]
      /\ \A k \in 1..Count(c) : FailedWith(c, k, RateLimitErrorIds) )
    => /\ Count(c) = ConfiguredAttempts(c)
       /\ result[c] = Rejected(invocations[c][Count(c)].err)

\* C4 witness: three attempts exhausted, the first and the last error differing
C4_Witness ==
  \E c \in Calls :
    /\ WithConfig(c) /\ pc[c] = "done" /\ ~aborted[c]
    /\ ConfiguredAttempts(c) = 3 /\ Count(c) = 3
    /\ \A k \in 1..3 : FailedWith(c, k, RateLimitErrorIds)
    /\ invocations[c][1].err # invocations[c][3].err
    /\ result[c] = Rejected(invocations[c][3].err)

\* C5: without a retry configuration the operation is invoked exactly once and
\* its value or its error is the call's outcome: no wait, no retry, no log line,
\* also for a retryable error.
C5_NoConfigRunsOnce ==
  \A c \in Calls :
    ~WithConfig(c) /\ Started(c)
    => /\ Count(c) = 1
       /\ pc[c] # "wait"
       /\ waits[c] = <<>> /\ retryLog[c] = <<>>
       /\ pc[c] = "done" =>
            \/ invocations[c][1].ok /\ result[c] = Resolved(invocations[c][1].val)
            \/ ~invocations[c][1].ok /\ result[c] = Rejected(invocations[c][1].err)

\* C5 witness: a rate-limit failure propagated at once
C5_Witness ==
  \E c \in Calls :
    /\ ~WithConfig(c) /\ pc[c] = "done"
    /\ FailedWith(c, 1, {2}) /\ result[c] = Rejected(2)

\* C6: once the signal has fired and the call is in its inter-attempt wait, the
\* operation is not invoked again: the call stays in the wait until it rejects
\* with the abort failure, which is neither a value nor the operation's error,
\* and a call that has ended that way never changes again.
C6_AbortedWaitRejects ==
  [][ \A c \in Calls :
        /\ (pc[c] = "wait" /\ aborted[c])
           => /\ invocations'[c] = invocations[c]
              /\ \/ pc'[c] = "wait" /\ result'[c] = Pending
                 \/ pc'[c] = "done" /\ result'[c] = AbortFailure
        /\ (pc[c] = "done" /\ result[c] = AbortFailure)
           => /\ invocations'[c] = invocations[c]
              /\ pc'[c] = "done" /\ result'[c] = AbortFailure
    ]_vars

\* C6 witness: the signal fired during the wait after the first of four
\* attempts; the call has rejected with the abort failure after one invocation
C6_Witness ==
  \E c \in Calls :
    /\ WithConfig(c) /\ ConfiguredAttempts(c) = 4
    /\ firedAt[c] = "wait"
    /\ pc[c] = "done" /\ result[c] = AbortFailure
    /\ Count(c) = 1 /\ FailedWith(c, 1, RateLimitErrorIds)

\* C7: a call ends with the value of its most recent invocation, with the
\* error of its most recent invocation, or with the abort failure (after a
\* failed invocation, the signal having fired), and with nothing else.
C7_OutcomeOfLastInvocation ==
  \A c \in Calls :
    pc[c] = "done" =>
      LET last == invocations[c][Count(c)]
      IN /\ Count(c) >= 1
         /\ \/ last.ok /\ result[c] = Resolved(last.val)
            \/ ~last.ok /\ last.err \in ErrorIds /\ result[c] = Rejected(last.err)
            \/ ~last.ok /\ last.err \in ErrorIds /\ aborted[c]
                 /\ result[c] = AbortFailure

\* C7 witness: the first attempt's error was swallowed by a retry and the call
\* rejected with the different error of the second attempt
C7_Witness ==
  \E c \in Calls :
    /\ pc[c] = "done" /\ Count(c) = 2
    /\ FailedWith(c, 1, {2}) /\ FailedWith(c, 2, {1})
    /\ result[c] = Rejected(1)

\* the backoff example of spec.md section 8: 1000, 2000, 4000, 8000 and then
\* 10000 after every later attempt
ExampleDelays ==
  [i \in 1..12 |-> CASE i = 1 -> 1000 [] i = 2 -> 2000 [] i = 3 -> 4000
                     [] i = 4 -> 8000 [] OTHER -> 10000]

IsExampleConfig(c) ==
  /\ Configured(c, "minDelayMs", 1000) = 1000
  /\ Configured(c, "maxDelayMs", 60000) = 10000

\* C8: with jitter = 0, the wait after the failure of attempt i with an error
\* that carries no retry hint is min(maxDelayMs, minDelayMs * 2^(i-1)); with
\* minDelayMs = 1000 and maxDelayMs = 10000 that is 1000, 2000, 4000, 8000 and
\* then 10000 for every later attempt.
C8_BackoffWithoutJitter ==
  \A c \in Calls : \A i \in 1..Len(waits[c]) :
    ( /\ WithConfig(c)
      /\ Configured(c, "jitter", 20) = 0
      /\ waits[c][i].err \in UnhintedErrorIds )
    => /\ waits[c][i].after = i
       /\ waits[c][i].ms = Min(Configured(c, "maxDelayMs", 60000),
                               Configured(c, "minDelayMs", 1000) * Pow2(i - 1))
       /\ IsExampleConfig(c) => waits[c][i].ms = ExampleDelays[i]

\* C8 witness: six waits of the example, the last two at the cap
C8_Witness ==
  \E c \in Calls :
    /\ WithConfig(c) /\ Configured(c, "jitter", 20) = 0 /\ IsExampleConfig(c)
    /\ Len(waits[c]) = 6
    /\ \A i \in 1..6 : waits[c][i].err \in UnhintedErrorIds
    /\ <<waits[c][1].ms, waits[c][2].ms, waits[c][3].ms, waits[c][4].ms,
         waits[c][5].ms, waits[c][6].ms>> = <<1000, 2000, 4000, 8000, 10000, 10000>>

\* the retry_after hint of the sample errors that carry one, in seconds:
\* a property of the error, a property of its nested error, and message text
HintSeconds == (4 :> 2) @@ (5 :> 5) @@ (6 :> 1)

\* C9: the wait after a retryable failure whose error carries a retry_after
\* hint of N seconds is N * 1000 ms, whatever the backoff would have been.
C9_HintOverridesBackoff ==
  \A c \in Calls : \A i \in 1..Len(waits[c]) :
    WithConfig(c) /\ waits[c][i].err \in DOMAIN HintSeconds
    => waits[c][i].ms = HintSeconds[waits[c][i].err] * 1000

\* C9 witness: three waits, one for each place a hint is read from, under the
\* configuration of the backoff example, whose delays would have been 1000,
\* 2000 and 4000 ms and whose maxDelayMs lies above every hint
C9_Witness ==
  \E c \in Calls :
    /\ WithConfig(c) /\ IsExampleConfig(c) /\ Configured(c, "jitter", 20) = 0
    /\ Len(waits[c]) = 3
    /\ waits[c][1].err = 4 /\ waits[c][1].ms = 2000
    /\ waits[c][2].err = 5 /\ waits[c][2].ms = 5000
    /\ waits[c][3].err = 6 /\ waits[c][3].ms = 1000

\* C10: every wait lies in [0, maxDelayMs].
C10_DelayWithinMax ==
  \A c \in Calls : \A i \in 1..Len(waits[c]) :
    WithConfig(c)
    => waits[c][i].ms >= 0 /\ waits[c][i].ms <= Configured(c, "maxDelayMs", 60000)

(***************************************************************************)
(* The classifier's functions applied to one error value.  An error case   *)
(* names what was thrown: its kind and, for an object or an Error, the     *)
(* status, retry_after, message and error properties it carries.           *)
(***************************************************************************)
\* the status property
StatusValues ==
  [ none |-> Undefined, n429 |-> Num(429), n401 |-> Num(401),
    s503 |-> Str(<<"5","0","3">>), sOops |-> Str(<<"o","o","p","s">>),
    sSci |-> Str(<<"u00A0","5",".","0","3","e","2">>) ]

\* the retry_after property
RetryAfterValues ==
  [ none |-> Undefined, n3 |-> Num(3), s4 |-> Str(<<"4">>), sSoon |-> Str(<<"s","o","o","n">>),
    sHalf |-> Str(<<"1",".","5">>) ]

\* the message: of an Error, of an object's message property, or the string
\* thrown ("none": the object has no message property)
MessageTexts ==
  [ none |-> <<>>,
    empty |-> <<>>,
    invalidKey |-> <<"I","n","v","a","l","i","d"," ","A","P","I"," ","k","e","y">>,
    unauthorized |-> <<"4","0","1",":"," ","I","n","v","a","l","i","d"," ","A","P","I"," ","k","e","y">>,
    rateLimit |-> <<"R","a","t","e"," ","l","i","m","i","t"," ","e","x","c","e","e","d","e","d">>,
    http500 |-> <<"H","T","T","P"," ","5","0","0"," ","I","n","t","e","r","n","a","l"," ","S","e","r","v","e","r"," ","E","r","r","o","r">>,
    http404 |-> <<"H","T","T","P"," ","4","0","4"," ","N","o","t"," ","F","o","u","n","d">>,
    quotaHint |-> <<"Q","u","o","t","a"," ","c","h","e","c","k"," ","f","a","i","l","e","d",","," ","r","e","t","r","y","_","a","f","t","e","r",":"," ","3","0">>,
    retryWords |-> <<"P","l","e","a","s","e"," ","R","e","t","r","y"," ","A","f","t","e","r"," ","1","2"," ","s","e","c","o","n","d","s">>,
    cjk |-> <<"u8BF7","u6C42","u9891","u7387","u8D85","u9650","uFF0C","u8BF7","u7A0D","u540E","u91CD","u8BD5">>,
    badGateway |-> <<"5","0","2"," ","B","a","d"," ","G","a","t","e","w","a","y">>,
    unavailable |-> <<"S","e","r","v","i","c","e","u00A0","U","n","a","v","a","i","l","a","b","l","e",","," ","r","e","t","r","y","u3000","a","f","t","e","r",":","u00A0","9">>,
    gatewayLines |-> <<"5","0","2","u2028","B","a","d"," ","G","a","t","e","w","a","y">>,
    kelvin |-> <<"T","O","u212A","E","N","S"," ","P","E","R"," ","M","I","N","U","T","E">> ]

\* the error property
NestedValues ==
  [ none |-> Undefined,
    text |-> Str(<<"r","a","t","e"," ","l","i","m","i","t",":"," ","t","o","o"," ","m","a","n","y"," ","r","e","q","u","e","s","t","s">>),
    bare |-> Obj(<<>>),
    status500 |-> Obj(<<P("status", Num(500))>>),
    retryAfter7 |-> Obj(<<P("retry_after", Num(7))>>),
    message |-> Obj(<<P("message", Str(<<"S","e","r","v","e","r"," ","i","s"," ","o","v","e","r","l","o","a","d","e","d">>))>>),
    emptyMessage |-> Obj(<<P("message", Str(<<>>))>>),
    type |-> Obj(<<P("type", Str(<<"r","a","t","e","_","l","i","m","i","t","_","e","r","r","o","r">>))>>),
    detail |-> Obj(<<P("detail", Str(<<"r","a","t","e","\t","l","i","m","i","t",","," ","r","e","t","r","y","\t","a","f","t","e","r"," ","5">>))>>) ]

ObjectKinds == {"object", "Error"}

ErrorCases ==
  { [kind |-> k, status |-> "none", retryAfter |-> "none", msg |-> "none",
     nested |-> "none"] : k \in {"undefined", "null", "number", "boolean"} }
  \cup
  { [kind |-> "string", status |-> "none", retryAfter |-> "none", msg |-> m,
     nested |-> "none"] : m \in DOMAIN MessageTexts \ {"none"} }
  \cup
  { c \in [kind : ObjectKinds, status : DOMAIN StatusValues,
           retryAfter : DOMAIN RetryAfterValues, msg : DOMAIN MessageTexts,
           nested : DOMAIN NestedValues] :
      c.kind = "Error" => c.msg # "none" }

\* a property of the value, left out when the case does not carry it
OwnProp(key, value) == IF value.t = "undefined" THEN <<>> ELSE <<P(key, value)>>

\* the value of an error case
ErrorValue(case) ==
  LET carried == OwnProp("status", StatusValues[case.status])
                   \o OwnProp("retry_after", RetryAfterValues[case.retryAfter])
      nested == OwnProp("error", NestedValues[case.nested])
  IN CASE case.kind = "undefined" -> Undefined
       [] case.kind = "null" -> Null
       [] case.kind = "number" -> Num(503)
       [] case.kind = "boolean" -> Bool(TRUE)
       [] case.kind = "string" -> Str(MessageTexts[case.msg])
       [] case.kind = "Error" -> ErrorObj(MessageTexts[case.msg], carried \o nested)
       [] case.kind = "object" ->
            Obj(carried
                \o (IF case.msg = "none" THEN <<>>
                    ELSE <<P("message", Str(MessageTexts[case.msg]))>>)
                \o nested)

\* extractErrorMessage, extractStatusCode, isRetryableError and getRetryAfterMs
\* are applied to the error
Classify ==
  /\ errCase # NoErrorCase
  /\ ~verdict.done
  /\ LET err == ErrorValue(errCase)
     IN verdict' = [ done |-> TRUE,
                     message |-> extractErrorMessage(err),
                     status |-> extractStatusCode(err),
                     retryable |-> isRetryableError(err),
                     retryAfter |-> getRetryAfterMs(err) ]
  /\ UNCHANGED <<callVars, errCase, lookupCase, lookupResult>>

(***************************************************************************)
(* getRetryConfig applied to one provider name and one configuration.  A   *)
(* lookup case names how deep the configuration goes and what the entries  *)
(* of its two providers hold.                                              *)
(***************************************************************************)
FirstProvider == "theta@claude-4-20250514"

SecondProvider == "gpt-4"

Providers == {FirstProvider, SecondProvider, "unknown-provider"}

\* the retry records of the provider entries, jitter in percent
RetryRecords ==
  [ long |-> [attempts |-> 10, minDelayMs |-> 2000, maxDelayMs |-> 120000,
              jitter |-> 20],
    short |-> [attempts |-> 3, minDelayMs |-> 5000, maxDelayMs |-> 60000,
               jitter |-> 30] ]

\* an entry of providers: missing, without a retry record, or with one
EntryChoices == {"missing", "noRetry"} \cup DOMAIN RetryRecords

\* how deep the configuration goes: undefined, {}, {models: {}}, or with a
\* providers record
Depths == {"undefined", "empty", "models", "providers"}

LookupCases ==
  { c \in [provider : Providers, depth : Depths, first : EntryChoices,
           second : EntryChoices] :
      c.depth # "providers" => c.first = "missing" /\ c.second = "missing" }

ProviderEntry(name, choice) ==
  IF choice = "missing" THEN <<>>
  ELSE IF choice = "noRetry" THEN name :> <<>>
  ELSE name :> [retry |-> RetryRecords[choice]]

\* the config argument of a lookup case
ConfigValue(case) ==
  CASE case.depth = "undefined" -> {}
    [] case.depth = "empty" -> {<<>>}
    [] case.depth = "models" -> {[models |-> <<>>]}
    [] case.depth = "providers" ->
         {[models |-> [providers |-> Merge(ProviderEntry(FirstProvider, case.first),
                                           ProviderEntry(SecondProvider, case.second))]]}

\* getRetryConfig(provider, config) is called
LookUp ==
  /\ lookupCase # NoLookupCase
  /\ ~lookupResult.done
  /\ lookupResult' =
       [done |-> TRUE, retry |-> getRetryConfig(lookupCase.provider, ConfigValue(lookupCase))]
  /\ UNCHANGED <<callVars, errCase, verdict, lookupCase>>

\* one function about to be applied to one input; no call of runWithPromptRetry
FunctionsInit ==
  /\ pc = [c \in Calls |-> "unused"]
  /\ retryConfig = [c \in Calls |-> NoRetryConfig]
  /\ hasSignal = [c \in Calls |-> FALSE]
  /\ aborted = [c \in Calls |-> FALSE]
  /\ attempt = [c \in Calls |-> 0]
  /\ lastErr = [c \in Calls |-> 0]
  /\ delayMs = [c \in Calls |-> 0]
  /\ result = [c \in Calls |-> Pending]
  /\ invocations = [c \in Calls |-> <<>>]
  /\ waits = [c \in Calls |-> <<>>]
  /\ retryLog = [c \in Calls |-> <<>>]
  /\ firedAt = [c \in Calls |-> "never"]
  /\ passedOptions = [c \in Calls |-> NoOptions]
  /\ _provider = [c \in Calls |-> DefaultProviderArg]
  /\ _modelId = [c \in Calls |-> DefaultModelIdArg]
  /\ verdict = NoVerdict
  /\ lookupResult = NoLookupResult
  /\ \/ errCase \in ErrorCases /\ lookupCase = NoLookupCase
     \/ errCase = NoErrorCase /\ lookupCase \in LookupCases

FunctionsNext == Classify \/ LookUp

FunctionsSpec == FunctionsInit /\ [][FunctionsNext]_vars

(***************************************************************************)
(* What the claims about the classifier read off an error case.            *)
(***************************************************************************)
ListedCodes == {429, 500, 502, 503, 504}

\* the number a status property holds
StatusCodes ==
  [none |-> {}, n429 |-> {429}, n401 |-> {401}, s503 |-> {503}, sOops |-> {}, sSci |-> {503}]

\* the number the status property under error holds
NestedStatusCodes ==
  [ none |-> {}, text |-> {}, bare |-> {}, status500 |-> {500}, retryAfter7 |-> {},
    message |-> {}, emptyMessage |-> {}, type |-> {}, detail |-> {} ]

\* the code a message gives in its "HTTP nnn" substring
MessageHttpCodes ==
  [ none |-> {}, empty |-> {}, invalidKey |-> {}, unauthorized |-> {}, rateLimit |-> {},
    http500 |-> {500}, http404 |-> {404}, quotaHint |-> {}, retryWords |-> {},
    cjk |-> {}, badGateway |-> {}, unavailable |-> {}, gatewayLines |-> {}, kelvin |-> {} ]

NestedObjects ==
  {"bare", "status500", "retryAfter7", "message", "emptyMessage", "type", "detail"}

\* where the message of an error case comes from: "outer" is the string, the
\* Error's message or the object's message property
SourceOf(case) ==
  LET hasOuter == case.msg \notin {"none", "empty"}
  IN IF case.kind = "string" THEN "outer"
     ELSE IF case.kind \notin ObjectKinds THEN "coerced"
     ELSE IF case.kind = "Error" /\ hasOuter THEN "outer"
     ELSE IF case.nested \in NestedObjects
       THEN IF case.nested = "message" THEN "nestedMessage"
            ELSE IF case.nested # "emptyMessage" /\ hasOuter THEN "outer"
            ELSE IF case.nested = "type" THEN "nestedType"
            ELSE "nestedJson"
     ELSE IF hasOuter THEN "outer"
     ELSE IF case.nested = "text" THEN "nestedText"
     ELSE "json"

\* the code in an "HTTP nnn" substring of the case's message
HttpInMessage(case) ==
  IF SourceOf(case) = "outer" THEN MessageHttpCodes[case.msg] ELSE {}

\* the first status code an error case gives: its status field, else its
\* nested error.status field, else the "HTTP nnn" substring of its message
FirstStatusCode(case) ==
  IF case.kind \in ObjectKinds /\ StatusCodes[case.status] # {}
    THEN StatusCodes[case.status]
  ELSE IF case.kind \in ObjectKinds /\ NestedStatusCodes[case.nested] # {}
    THEN NestedStatusCodes[case.nested]
  ELSE HttpInMessage(case)

Classified == verdict.done /\ errCase # NoErrorCase

\* C11: an error whose first extractable status code (status field, else nested
\* error.status field, else the "HTTP nnn" substring of its message) is one of
\* 429, 500, 502, 503, 504 is classified retryable, whatever its message says.
C11_RetryableStatusCode ==
  Classified /\ FirstStatusCode(errCase) \cap ListedCodes # {} => verdict.retryable

\* whether a message meets one of the listed message conditions: a rate-limit
\* or overload pattern, an SDK error-type token, a CJK rate-limit phrase or
\* marker glyph, a looser formatted pattern, a 502/503 reason phrase.  A no-break
\* space separates as a space does, the Kelvin sign is a k in lower case, and
\* the reason phrase is on the line of its code.
MessageListed ==
  [ none |-> FALSE, empty |-> FALSE, invalidKey |-> FALSE, unauthorized |-> FALSE,
    rateLimit |-> TRUE, http500 |-> FALSE, http404 |-> FALSE, quotaHint |-> FALSE,
    retryWords |-> FALSE, cjk |-> TRUE, badGateway |-> TRUE, unavailable |-> TRUE,
    gatewayLines |-> FALSE, kelvin |-> TRUE ]

\* the same for the message of an error case: the messages under error are an
\* overload message, a rate-limit message and the token rate_limit_error; the
\* JSON texts and the coerced values meet no condition
MessageOfCaseListed(case) ==
  CASE SourceOf(case) = "outer" -> MessageListed[case.msg]
    [] SourceOf(case) \in {"nestedMessage", "nestedType", "nestedText"} -> TRUE
    [] OTHER -> FALSE

\* C12: an error is classified retryable only if a listed condition holds: a
\* retryable status code or a listed message condition; Error("Invalid API key")
\* and Error("401: Invalid API key") are classified non-retryable.
C12_RetryableOnlyIfListed ==
  Classified /\ verdict.retryable =>
    \/ FirstStatusCode(errCase) \cap ListedCodes # {}
    \/ MessageOfCaseListed(errCase)

\* Error("401: Invalid API key") was classified, as non-retryable
C12_Witness ==
  /\ Classified
  /\ errCase = [kind |-> "Error", status |-> "none", retryAfter |-> "none",
                msg |-> "unauthorized", nested |-> "none"]
  /\ ~verdict.retryable

\* the milliseconds a retry_after property holds
RetryAfterMs == [none |-> {}, n3 |-> {3000}, s4 |-> {4000}, sSoon |-> {}, sHalf |-> {1500}]

\* the milliseconds the retry_after property under error holds
NestedRetryAfterMs ==
  [ none |-> {}, text |-> {}, bare |-> {}, status500 |-> {}, retryAfter7 |-> {7000},
    message |-> {}, emptyMessage |-> {}, type |-> {}, detail |-> {} ]

\* the milliseconds a message gives as "retry_after: N" or "retry after N"
MessageHintMs ==
  [ none |-> {}, empty |-> {}, invalidKey |-> {}, unauthorized |-> {}, rateLimit |-> {},
    http500 |-> {}, http404 |-> {}, quotaHint |-> {30000}, retryWords |-> {12000},
    cjk |-> {}, badGateway |-> {}, unavailable |-> {9000}, gatewayLines |-> {}, kelvin |-> {} ]

\* the hint in the message of an error case: no message under error, no JSON
\* text and no coerced value holds one
HintInMessage(case) ==
  IF SourceOf(case) = "outer" THEN MessageHintMs[case.msg] ELSE {}

\* the retry_after field, else the nested one, else the hint of the message
FirstRetryAfter(case) ==
  IF case.kind \in ObjectKinds /\ RetryAfterMs[case.retryAfter] # {}
    THEN RetryAfterMs[case.retryAfter]
  ELSE IF case.kind \in ObjectKinds /\ NestedRetryAfterMs[case.nested] # {}
    THEN NestedRetryAfterMs[case.nested]
  ELSE HintInMessage(case)

\* C13: retry-after extraction returns the numeric retry_after field times 1000,
\* else the numeric retry_after field under error times 1000, else N * 1000 for a
\* message holding "retry_after: N" or "retry after N" in any letter case, else
\* undefined, whether or not the error is classified retryable.
C13_RetryAfterPrecedence ==
  Classified => verdict.retryAfter = {JsNumber(ms) : ms \in FirstRetryAfter(errCase)}

\* a non-retryable object whose nested retry_after takes precedence over the
\* hint of its message
C13_Witness ==
  /\ Classified
  /\ errCase = [kind |-> "object", status |-> "none", retryAfter |-> "none",
                msg |-> "quotaHint", nested |-> "retryAfter7"]
  /\ ~verdict.retryable
  /\ verdict.retryAfter = {JsNumber(7000)}

\* C14: a field the retry configuration omits takes its default (attempts 3,
\* minDelayMs 1000, maxDelayMs 60000, jitter 0.2) and a field it supplies is
\* used as given; the empty configuration enables retrying with up to three
\* attempts, while a call without a configuration hands nothing to the retry
\* loop and invokes the operation once.
C14_DefaultsFilled ==
  \A c \in Calls :
    /\ WithConfig(c) /\ Started(c) =>
         /\ passedOptions[c] =
              [ attempts |-> Configured(c, "attempts", 3),
                minDelayMs |-> Configured(c, "minDelayMs", 1000),
                maxDelayMs |-> Configured(c, "maxDelayMs", 60000),
                jitter |-> Configured(c, "jitter", 20) ]
         /\ DOMAIN retryConfig[c].cfg = {} => Count(c) <= 3
    /\ ~WithConfig(c) /\ Started(c) => passedOptions[c] = NoOptions /\ Count(c) = 1

\* a call with the empty configuration ended after three invocations
C14_Witness ==
  \E c \in Calls :
    /\ WithConfig(c)
    /\ DOMAIN retryConfig[c].cfg = {}
    /\ pc[c] = "done"
    /\ Count(c) = 3
    /\ Len(waits[c]) = 2

\* the entry a lookup case holds for the provider asked for
EntryOf(case) ==
  IF case.depth # "providers" THEN "missing"
  ELSE IF case.provider = FirstProvider THEN case.first
  ELSE IF case.provider = SecondProvider THEN case.second
  ELSE "missing"

LookedUp == lookupResult.done /\ lookupCase # NoLookupCase

\* C15: getRetryConfig returns exactly the retry record stored at
\* config.models.providers[provider].retry, undefined when the configuration,
\* the models level, the providers level, the provider's entry or its retry
\* record is absent, and never the record of another provider.
C15_ProviderRetryRecord ==
  LookedUp =>
    lookupResult.retry =
      IF EntryOf(lookupCase) \in DOMAIN RetryRecords
        THEN {RetryRecords[EntryOf(lookupCase)]}
      ELSE {}

\* the provider asked for has an entry without a retry record, the other
\* provider has one: the lookup returned undefined
C15_Witness ==
  /\ LookedUp
  /\ lookupCase = [provider |-> FirstProvider, depth |-> "providers",
                   first |-> "noRetry", second |-> "short"]
  /\ lookupResult.retry = {}

\* every invocation of call c before the last has failed, and the last one is
\* in flight only while the call is at an attempt
OneInFlight(c) ==
  /\ \A k \in 1..(Count(c) - 1) :
       invocations[c][k] # InFlight /\ ~invocations[c][k].ok
  /\ Count(c) > 0 /\ invocations[c][Count(c)] = InFlight => pc[c] = "attempt"

\* every invocation of call c after the first follows the wait that was
\* scheduled for the failure of the one before it
WaitBetweenAttempts(c) ==
  /\ Len(waits[c]) >= Count(c) - 1
  /\ \A k \in 2..Count(c) :
       /\ waits[c][k - 1].after = k - 1
       /\ waits[c][k - 1].err = invocations[c][k - 1].err

\* a step that invokes the operation for call c invokes it once, either as
\* the first attempt or out of a wait that followed a failed attempt
StartsAfterWait(c) ==
  Count(c)' # Count(c) =>
    /\ Count(c)' = Count(c) + 1
    /\ \/ pc[c] = "idle" /\ Count(c) = 0
       \/ /\ pc[c] = "wait"
          /\ Len(waits[c]) = Count(c)
          /\ ~invocations[c][Count(c)].ok
          /\ invocations[c][Count(c)] # InFlight

\* C16: within one call the attempts are strictly sequential: at most one
\* invocation of the operation is in flight at any time, and attempt i+1 starts
\* only after attempt i has failed and the wait scheduled for it has elapsed.
C16_SequentialAttempts ==
  /\ [](\A c \in Calls : OneInFlight(c) /\ WaitBetweenAttempts(c))
  /\ [][\A c \in Calls : StartsAfterWait(c)]_vars

\* a third attempt is in flight after two failed attempts and two waits
C16_Witness ==
  \E c \in Calls :
    /\ pc[c] = "attempt"
    /\ Count(c) = 3
    /\ Len(waits[c]) = 2
    /\ invocations[c][3] = InFlight

(***************************************************************************)
(* Two calls of runWithPromptRetry that run concurrently.                  *)
(***************************************************************************)
\* the retry configurations of the concurrent calls
ConcurrentConfigArgs ==
  { NoRetryConfig,
    [given |-> TRUE, cfg |-> Merge([attempts |-> 2, jitter |-> 0], TestDelays)],
    [given |-> TRUE, cfg |-> Merge([attempts |-> 2, jitter |-> 0], CappedDelays)],
    [given |-> TRUE, cfg |-> Merge([attempts |-> 1, jitter |-> 0], TestDelays)] }

\* two calls about to be made, each with its own retryConfig and signal
ConcurrentInit ==
  /\ pc = [c \in Calls |-> "idle"]
  /\ retryConfig \in [Calls -> ConcurrentConfigArgs]
  /\ hasSignal \in [Calls -> BOOLEAN]
  /\ aborted = [c \in Calls |-> FALSE]
  /\ attempt = [c \in Calls |-> 0]
  /\ lastErr = [c \in Calls |-> 0]
  /\ delayMs = [c \in Calls |-> 0]
  /\ result = [c \in Calls |-> Pending]
  /\ invocations = [c \in Calls |-> <<>>]
  /\ waits = [c \in Calls |-> <<>>]
  /\ retryLog = [c \in Calls |-> <<>>]
  /\ firedAt = [c \in Calls |-> "never"]
  /\ passedOptions = [c \in Calls |-> NoOptions]
  /\ _provider = [c \in Calls |-> DefaultProviderArg]
  /\ _modelId = [c \in Calls |-> DefaultModelIdArg]
  /\ errCase = NoErrorCase
  /\ verdict = NoVerdict
  /\ lookupCase = NoLookupCase
  /\ lookupResult = NoLookupResult

ConcurrentSpec == ConcurrentInit /\ [][Next]_vars

\* everything the model keeps for call c
CallState(c) ==
  <<pc[c], retryConfig[c], hasSignal[c], aborted[c], attempt[c], lastErr[c],
    delayMs[c], result[c], invocations[c], waits[c], retryLog[c], firedAt[c],
    passedOptions[c]>>

\* the attempt count and the delays of call c follow its own configuration
OwnConfigOnly(c) ==
  /\ WithConfig(c) =>
       /\ Count(c) <= ConfiguredAttempts(c)
       /\ \A i \in DOMAIN retryLog[c] : retryLog[c][i].maxAttempts = ConfiguredAttempts(c)
       /\ \A i \in DOMAIN waits[c] :
            waits[c][i].err \in UnhintedErrorIds =>
              LET backoff == Configured(c, "minDelayMs", 1000) * Pow2(i - 1)
                  cap == Configured(c, "maxDelayMs", 60000)
              IN waits[c][i].ms = IF backoff <= cap THEN backoff ELSE cap
  /\ ~WithConfig(c) /\ Started(c) => Count(c) = 1 /\ waits[c] = <<>>

\* two ended calls with the same configuration, the same outcomes of their
\* operations and the same state of their signals ended the same way
SameInputsSameOutcome(c, d) ==
  /\ pc[c] = "done" /\ pc[d] = "done"
  /\ retryConfig[c] = retryConfig[d]
  /\ invocations[c] = invocations[d]
  /\ signalAborted(c) = signalAborted(d)
  => result[c] = result[d] /\ waits[c] = waits[d] /\ retryLog[c] = retryLog[d]

\* a step touches the state of one call only
OneCallSteps == \E c \in Calls : \A d \in Calls \ {c} : CallState(d)' = CallState(d)

\* C17: concurrent calls are independent: under every interleaving of their
\* steps each call's attempt count, delays and outcome depend only on its own
\* configuration, the outcomes of its own operation and its own signal, and no
\* step of one call changes the state of the other.
C17_CallsIndependent ==
  /\ [](\A c \in Calls : OwnConfigOnly(c))
  /\ [](\A c, d \in Calls : SameInputsSameOutcome(c, d))
  /\ [][OneCallSteps]_vars

\* call 1 sleeps while the second attempt of call 2, which runs under another
\* configuration, is in flight
C17_Witness ==
  /\ WithConfig(1) /\ WithConfig(2)
  /\ retryConfig[1] # retryConfig[2]
  /\ pc[1] = "wait"
  /\ pc[2] = "attempt"
  /\ Count(2) = 2

\* the retry log of call c has one line per wait started, and the line holds
\* the index of the attempt that failed, the configured attempts and the delay
OneLinePerRetry(c) ==
  /\ Len(retryLog[c]) = Len(waits[c])
  /\ \A i \in DOMAIN retryLog[c] :
       /\ waits[c][i].after = i
       /\ retryLog[c][i] = [ attempt |-> i, maxAttempts |-> ConfiguredAttempts(c),
                             delayMs |-> waits[c][i].ms ]

\* how many lines call c has logged by the time it sleeps and when it has ended
LinesPerInvocation(c) ==
  /\ ~WithConfig(c) => retryLog[c] = <<>>
  /\ pc[c] = "wait" => Len(retryLog[c]) = Count(c)
  /\ pc[c] = "done" /\ result[c].kind # "abort" => Len(retryLog[c]) = Count(c) - 1
  /\ pc[c] = "done" /\ result[c].kind = "abort" => Len(retryLog[c]) = Count(c)

\* a line is logged in the step that ends a failed attempt and starts its wait
LoggedBeforeWait(c) ==
  retryLog[c]' # retryLog[c] =>
    /\ Len(retryLog[c]') = Len(retryLog[c]) + 1
    /\ pc[c] = "attempt" /\ pc[c]' = "wait"
    /\ Len(waits[c]') = Len(waits[c]) + 1
    /\ Count(c)' = Count(c)

\* C18: every retry taken is logged exactly once, before its wait, with the
\* index of the attempt that failed, the total attempts and the delay; a call
\* that is not cancelled logs one line less than it invokes the operation, and
\* a terminal failure or a call without a configuration logs nothing.
C18_OneLogLinePerRetry ==
  /\ [](\A c \in Calls : OneLinePerRetry(c) /\ LinesPerInvocation(c))
  /\ [][\A c \in Calls : LoggedBeforeWait(c)]_vars

\* a call of three attempts ended without being cancelled, with two lines
C18_Witness ==
  \E c \in Calls :
    /\ WithConfig(c)
    /\ pc[c] = "done"
    /\ result[c].kind = "error"
    /\ Count(c) = 3
    /\ Len(retryLog[c]) = 2
    /\ retryLog[c][2].attempt = 2

\* the JSON text of the object under error
NestedJson ==
  [ bare |-> <<"{","}">>, status500 |-> <<"{","\"","s","t","a","t","u","s","\"",":","5","0","0","}">>,
    retryAfter7 |-> <<"{","\"","r","e","t","r","y","_","a","f","t","e","r","\"",":","7","}">>, emptyMessage |-> <<"{","\"","m","e","s","s","a","g","e","\"",":","\"","\"","}">>,
    message |-> <<"{","\"","m","e","s","s","a","g","e","\"",":","\"","S","e","r","v","e","r"," ","i","s"," ","o","v","e","r","l","o","a","d","e","d","\"","}">>,
    type |-> <<"{","\"","t","y","p","e","\"",":","\"","r","a","t","e","_","l","i","m","i","t","_","e","r","r","o","r","\"","}">>,
    detail |-> <<"{","\"","d","e","t","a","i","l","\"",":","\"","r","a","t","e","\\","t","l","i","m","i","t",","," ","r","e","t","r","y","\\","t","a","f","t","e","r"," ","5","\"","}">> ]

\* the JSON members of the status and the retry_after property
StatusJson ==
  [ none |-> <<>>, n429 |-> <<"\"","s","t","a","t","u","s","\"",":","4","2","9">>, n401 |-> <<"\"","s","t","a","t","u","s","\"",":","4","0","1">>,
    s503 |-> <<"\"","s","t","a","t","u","s","\"",":","\"","5","0","3","\"">>, sOops |-> <<"\"","s","t","a","t","u","s","\"",":","\"","o","o","p","s","\"">>,
    sSci |-> <<"\"","s","t","a","t","u","s","\"",":","\"","u00A0","5",".","0","3","e","2","\"">> ]

RetryAfterJson ==
  [ none |-> <<>>, n3 |-> <<"\"","r","e","t","r","y","_","a","f","t","e","r","\"",":","3">>, s4 |-> <<"\"","r","e","t","r","y","_","a","f","t","e","r","\"",":","\"","4","\"">>,
    sSoon |-> <<"\"","r","e","t","r","y","_","a","f","t","e","r","\"",":","\"","s","o","o","n","\"">>,
    sHalf |-> <<"\"","r","e","t","r","y","_","a","f","t","e","r","\"",":","\"","1",".","5","\"">> ]

\* members joined by commas, the absent ones left out
RECURSIVE JoinMembers(_)
JoinMembers(members) ==
  IF members = <<>> THEN <<>>
  ELSE IF members[1] = <<>> THEN JoinMembers(Tail(members))
  ELSE IF JoinMembers(Tail(members)) = <<>> THEN members[1]
  ELSE members[1] \o <<",">> \o JoinMembers(Tail(members))

\* the JSON text of an object or Error that has no error property: an Error's
\* message is not among its enumerable properties
WholeJson(case) ==
  <<"{">>
    \o JoinMembers(<< StatusJson[case.status], RetryAfterJson[case.retryAfter],
                      IF case.kind = "object" /\ case.msg = "empty"
                        THEN <<"\"","m","e","s","s","a","g","e","\"",":","\"","\"">> ELSE <<>> >>)
    \o <<"}">>

\* where C19 takes the message of an error case from: as SourceOf, but a key
\* the nested object holds as an empty string falls back to the outer object
StatedSourceOf(case) ==
  IF /\ case.kind = "object" /\ case.nested = "emptyMessage"
     /\ case.msg \notin {"none", "empty"}
    THEN "outer"
  ELSE SourceOf(case)

\* the message a source gives for an error case: a string itself, an Error's
\* message, a non-empty string property of the nested or of the outer object,
\* the JSON text of the nested object or of the object, and for any other
\* value the text given for it
MessageFrom(case, source, ofNull, ofUndefined) ==
  CASE source = "outer" -> MessageTexts[case.msg]
    [] source = "nestedMessage" -> <<"S","e","r","v","e","r"," ","i","s"," ","o","v","e","r","l","o","a","d","e","d">>
    [] source = "nestedType" -> <<"r","a","t","e","_","l","i","m","i","t","_","e","r","r","o","r">>
    [] source = "nestedText" -> <<"r","a","t","e"," ","l","i","m","i","t",":"," ","t","o","o"," ","m","a","n","y"," ","r","e","q","u","e","s","t","s">>
    [] source = "nestedJson" -> NestedJson[case.nested]
    [] source = "json" -> WholeJson(case)
    [] source = "coerced" ->
         CASE case.kind = "number" -> <<"5","0","3">>
           [] case.kind = "boolean" -> <<"t","r","u","e">>
           [] case.kind = "null" -> ofNull
           [] case.kind = "undefined" -> ofUndefined

\* C19: the message is extracted by the stated priority: a string itself; an
\* Error's message; for an object with an object under error the first
\* non-empty string among message, error, type, code, looked up on the nested
\* object and falling back to the outer one, else the JSON text of the nested
\* object; for any other object the first non-empty string among message,
\* error, code, reason, type, else the JSON text of the object; for every other
\* value, null and undefined included, its string coercion.
C19_MessageByCoercion ==
  Classified =>
    verdict.message = MessageFrom(errCase, StatedSourceOf(errCase),
                                  <<"n","u","l","l">>, <<"u","n","d","e","f","i","n","e","d">>)

\* what extractErrorMessage returns instead: null and undefined yield the empty
\* string, and a key the nested object holds as an empty string is not looked
\* up on the outer object (nested[key] ?? errObj[key])
ExtractedMessage ==
  Classified => verdict.message = MessageFrom(errCase, SourceOf(errCase), <<>>, <<>>)

(***************************************************************************)
(* Progress: the caller makes the call, every invocation of the operation  *)
(* settles in some way, the promise of a call follows the promise it       *)
(* returns, and every sleep ends or is aborted.  Nothing is assumed about  *)
(* how an invocation settles, nor about the signal.                        *)
(***************************************************************************)
Progress(c) ==
  \/ runWithPromptRetry(c)
  \/ \E v \in ResultValues : fnResolves(c, v)
  \/ \E e \in ErrorIds : fnRejects(c, e)
  \/ ReturnsWithoutRetry(c)
  \/ ResolvesInRetry(c)
  \/ RejectsTerminal(c)
  \/ \E u \in JitterDraws(options(c)) : RejectsRetryable(c, u)
  \/ WaitElapses(c)
  \/ WaitAborted(c)

\* the retry configurations progress is checked for: none, the empty one and
\* every attempts value; the control flow does not depend on the delays
FairConfigArgs ==
  {NoRetryConfig}
  \cup {[given |-> TRUE, cfg |-> <<>>]}
  \cup { [given |-> TRUE, cfg |-> Merge([attempts |-> a, jitter |-> 0], TestDelays)] :
           a \in 1..MaxAttempts }

FairInit == Init /\ retryConfig[1] \in FairConfigArgs

FairSpec == FairInit /\ [][Next]_vars /\ \A c \in Calls : WF_vars(Progress(c))

\* the call has returned a value or thrown
Settled(c) == pc[c] = "done" /\ result[c] # Pending

\* the attempt index of a running call with a configuration is that of the
\* invocation in progress and never exceeds the configured attempts
AttemptIndexBounded(c) ==
  WithConfig(c) /\ Started(c) =>
    attempt[c] = Count(c) /\ attempt[c] <= ConfiguredAttempts(c)

\* every new invocation of a call with a configuration raises the attempt index
AttemptIndexGrows(c) ==
  WithConfig(c) /\ Count(c)' # Count(c) => attempt[c]' = attempt[c] + 1

\* C20: every call eventually settles, by returning a value or by throwing,
\* provided every invocation of the operation settles and every wait elapses or
\* is cancelled: each failed attempt that is retried raises the attempt index
\* towards attempts, which bounds it.
C20_EveryCallSettles ==
  /\ \A c \in Calls : pc[c] = "idle" ~> Settled(c)
  /\ [](\A c \in Calls : AttemptIndexBounded(c))
  /\ [][\A c \in Calls : AttemptIndexGrows(c)]_vars

\* a call settled by throwing after every one of its four attempts failed
C20_Witness ==
  \E c \in Calls :
    /\ Settled(c)
    /\ ConfiguredAttempts(c) = 4
    /\ Count(c) = 4
    /\ result[c].kind = "error"

(***************************************************************************)
(* Two calls that are given the same retryConfig and the same signal       *)
(* argument and differ in what is passed for _provider and _modelId.       *)
(***************************************************************************)
\* what the second call passes for _provider: a provider name, nothing, or
\* the retry configuration the tests pass in that place
ProviderArgs ==
  { DefaultProviderArg, NameArg("gpt-4"), UndefinedArg,
    ConfigArg([attempts |-> 5, minDelayMs |-> 0, maxDelayMs |-> 1000, jitter |-> 0]) }

ModelIdArgs == {DefaultModelIdArg, UndefinedArg}

\* the retryConfig both calls are given
ArgumentsConfigArgs ==
  { NoRetryConfig,
    [given |-> TRUE, cfg |-> Merge([attempts |-> 2, jitter |-> 0], TestDelays)],
    [given |-> TRUE, cfg |-> Merge([attempts |-> 1, jitter |-> 0], CappedDelays)] }

ArgumentsInit ==
  /\ pc = [c \in Calls |-> "idle"]
  /\ \E given \in ArgumentsConfigArgs : retryConfig = [c \in Calls |-> given]
  /\ \E passed \in BOOLEAN : hasSignal = [c \in Calls |-> passed]
  /\ aborted = [c \in Calls |-> FALSE]
  /\ attempt = [c \in Calls |-> 0]
  /\ lastErr = [c \in Calls |-> 0]
  /\ delayMs = [c \in Calls |-> 0]
  /\ result = [c \in Calls |-> Pending]
  /\ invocations = [c \in Calls |-> <<>>]
  /\ waits = [c \in Calls |-> <<>>]
  /\ retryLog = [c \in Calls |-> <<>>]
  /\ firedAt = [c \in Calls |-> "never"]
  /\ passedOptions = [c \in Calls |-> NoOptions]
  /\ \E arg \in ProviderArgs :
       _provider = [c \in Calls |-> IF c = 1 THEN DefaultProviderArg ELSE arg]
  /\ \E arg \in ModelIdArgs :
       _modelId = [c \in Calls |-> IF c = 1 THEN DefaultModelIdArg ELSE arg]
  /\ errCase = NoErrorCase
  /\ verdict = NoVerdict
  /\ lookupCase = NoLookupCase
  /\ lookupResult = NoLookupResult

ArgumentsSpec == ArgumentsInit /\ [][Next]_vars

\* the invocations of calls c and d settled alike as far as both got
SameOutcomesSoFar(c, d) ==
  \A k \in 1..Min(Count(c), Count(d)) : invocations[c][k] = invocations[d][k]

\* two ended calls whose signals never fired and whose operations settled
\* alike made the same number of attempts with the same delays and ended in the
\* same outcome
SameAttemptsAndDelays(c, d) ==
  /\ pc[c] = "done" /\ pc[d] = "done"
  /\ retryConfig[c] = retryConfig[d]
  /\ ~aborted[c] /\ ~aborted[d]
  /\ SameOutcomesSoFar(c, d)
  => Count(c) = Count(d) /\ waits[c] = waits[d] /\ result[c] = result[d]

\* retrying is enabled by the retryConfig argument and by nothing else
EnabledByRetryConfigOnly(c) ==
  Started(c) =>
    /\ ~WithConfig(c) => Count(c) = 1 /\ waits[c] = <<>> /\ passedOptions[c] = NoOptions
    /\ WithConfig(c) =>
         /\ Count(c) <= ConfiguredAttempts(c)
         /\ passedOptions[c].attempts = ConfiguredAttempts(c)

\* C21: the _provider and _modelId arguments have no effect: two calls that
\* differ only in them, given the same retryConfig, signal and outcomes of the
\* operation, make the same number of attempts with the same delays and end in
\* the same outcome; retrying is enabled only by the retryConfig argument.
C21_UnusedArguments ==
  /\ \A c, d \in Calls : SameAttemptsAndDelays(c, d) /\ SameInputsSameOutcome(c, d)
  /\ \A c \in Calls : EnabledByRetryConfigOnly(c)

\* both calls ended after one invocation that failed with the same rate-limit
\* error: neither was given a retryConfig, the second was passed a retry
\* configuration in the place of _provider
C21_Witness ==
  /\ ~WithConfig(1) /\ ~WithConfig(2)
  /\ _provider[2].kind = "object"
  /\ _provider[1] # _provider[2]
  /\ _modelId[1] # _modelId[2]
  /\ pc[1] = "done" /\ pc[2] = "done"
  /\ Count(1) = 1 /\ Count(2) = 1
  /\ result[1] = Rejected(2) /\ result[2] = Rejected(2)

\* call c was configured without jitter and with minDelayMs <= maxDelayMs, and
\* none of the failures it has waited for carried a provider hint
PlainBackoff(c) ==
  /\ WithConfig(c)
  /\ Configured(c, "jitter", 20) = 0
  /\ Configured(c, "minDelayMs", 1000) <= Configured(c, "maxDelayMs", 60000)
  /\ \A i \in DOMAIN waits[c] : waits[c][i].err \in UnhintedErrorIds

\* C22: with jitter 0, minDelayMs <= maxDelayMs and no provider hints, the
\* waits of one call never decrease and, once one of them is maxDelayMs, every
\* later one is exactly maxDelayMs.
C22_WaitsNonDecreasing ==
  \A c \in Calls :
    PlainBackoff(c) =>
      \A i, j \in DOMAIN waits[c] :
        i < j =>
          /\ waits[c][i].ms <= waits[c][j].ms
          /\ waits[c][i].ms = Configured(c, "maxDelayMs", 60000) =>
               waits[c][j].ms = Configured(c, "maxDelayMs", 60000)

\* three waits of 1000, 2000 and 2000 ms under maxDelayMs = 2000
C22_Witness ==
  \E c \in Calls :
    /\ PlainBackoff(c)
    /\ Configured(c, "maxDelayMs", 60000) = 2000
    /\ Len(waits[c]) = 3
    /\ waits[c][1].ms = 1000
    /\ waits[c][2].ms = 2000
    /\ waits[c][3].ms = 2000

=============================================================================
